---- MODULE Spec2Model ----
(***************************************************************************)
(* git-smee: a model of the execution engine (executor.rs), the            *)
(* managed-file installer (installer.rs) and the platform abstraction      *)
(* (platform.rs).                                                          *)
(*                                                                         *)
(* Strings are sequences of one-character strings, so that trimming,       *)
(* whitespace splitting, prefix tests and line splitting are computed the  *)
(* way the Rust code computes them.                                        *)
(***************************************************************************)
EXTENDS Integers, Sequences, FiniteSets, TLC

VARIABLES
    platform,       \* Platform::current(): "Unix" or "Windows"
    smee_config,    \* SmeeConfig.hooks: phase -> sequence of HookDefinition
    phase,          \* the phase execute_hook is asked to run
    pc,             \* position of the phase run
    seq_idx,        \* index of the next entry of sequential_hooks
    seq_running,    \* TRUE while the control thread waits for a sequential command
    par,            \* hook index -> "pending" | "running" | "done" | "skipped"
    results,        \* hook index -> result of execute_command, or NotRun
    calls,          \* hook indices in the order runner.run was called
    outcomes,       \* hook index -> what runner.run returned for it, or NoOutcome
    result,         \* what execute_hook returned, or NoResult
    hooks_dir,      \* the effective hooks directory: hook name -> file or Absent
    config_file,    \* the file at repository_root/.git-smee.toml, or Absent
    orig_hooks_dir, \* hooks_dir as it was before the first operation
    orig_config,    \* config_file as it was before the first operation
    force_used,     \* TRUE once an installer built with force_overwrite has run
    clean_runs,     \* [cfg, n]: n operations so far, all of them install_hooks of the
                    \* phases cfg, without force or write failure, on a directory that
                    \* held no file of cfg at first; n = -1 once another operation ran
    last_op,        \* the last installer operation: its kind, force flag and result
    cmd,            \* the command string execute_command is called with
    cmd_result,     \* what execute_command returned for it, or NoResult
    config_source,  \* what the configuration path names: nothing, a directory or a file
    hook_arg,       \* the hook name given to `git-smee run`
    cli_pc,         \* position of the run command
    config_result,  \* what SmeeConfig::from_toml returned, or NoResult
    phase_result,   \* what LifeCyclePhase::from_str returned, or NoResult
    engine_calls,   \* phases the engine was asked to execute
    run_result,     \* what the command returned, or NoResult
    cli_command,    \* the subcommand: "run" or "install"
    install_calls,  \* hook names install_hook was called with by the install command
    file_bytes,     \* a text: the content handed to with_managed_header, the bytes of a file
    headed,         \* what with_managed_header returned for file_bytes, or NoResult
    managed,        \* what is_managed_file returned for a file holding file_bytes, or NoResult
    platform_run,   \* one command run by PlatformCommandRunner: shell state, outcome, result
    custom_path,    \* init: TRUE when the configuration path is not the default one
    exit_code,      \* the exit code of the process, -1 while it runs
    chmod_call,     \* one call of Platform::make_executable: platform, file before, outcome
    escape_call     \* one path escaped into a script line and read back by the shell

execVars == <<platform, smee_config, phase, pc, seq_idx, seq_running, par, results, calls, outcomes, result>>

instVars == <<hooks_dir, config_file, orig_hooks_dir, orig_config, force_used, clean_runs, last_op>>

cmdVars == <<cmd, cmd_result>>

cliVars == <<config_source, hook_arg, cli_pc, config_result, phase_result, engine_calls, run_result>>

cliInstallVars == <<cli_command, install_calls>>

markerVars == <<file_bytes, headed, managed>>

shellVars == <<platform_run>>

procVars == <<custom_path, exit_code>>

platformVars == <<chmod_call, escape_call>>

vars == <<execVars, instVars, cmdVars, cliVars, cliInstallVars, markerVars, shellVars, procVars,
          platformVars>>

----------------------------------------------------------------------------
(* Bounds of the model *)

MaxHooks == 3

NumThreads == 2

MaxCleanRuns == 3

MaxTokens == 3

MaxEntries == 2

----------------------------------------------------------------------------
(* Strings *)

Whitespace == {" ", "\t"}

\* str::trim().is_empty()
TrimIsEmpty(s) == \A i \in 1..Len(s) : s[i] \in Whitespace

Contains(s, c) == \E i \in 1..Len(s) : s[i] = c

StartsWith(s, p) == Len(s) >= Len(p) /\ SubSeq(s, 1, Len(p)) = p

\* substring test on character sequences
IsSubstring(p, s) ==
    \E i \in 0..(Len(s) - Len(p)) : SubSeq(s, i + 1, i + Len(p)) = p

\* str::split_whitespace(): the maximal runs of non-whitespace characters, in
\* order; SplitFrom gives the runs that begin at or after position i
RECURSIVE SplitFrom(_, _)
SplitFrom(s, i) ==
    LET begins == {j \in i .. Len(s) : s[j] \notin Whitespace}
    IN  IF begins = {} THEN <<>>
        ELSE LET first == CHOOSE j \in begins : \A k \in begins : j <= k
                 stops == {j \in first .. Len(s) : j = Len(s) \/ s[j + 1] \in Whitespace}
                 last == CHOOSE j \in stops : \A k \in stops : j <= k
             IN  <<SubSeq(s, first, last)>> \o SplitFrom(s, last + 1)

SplitWhitespace(s) == SplitFrom(s, 1)

Repeat(c, n) == [i \in 1..n |-> c]

----------------------------------------------------------------------------
(* executor.rs: redaction *)

RedactTruncateAbove == 80

RedactTruncateTo == 77

Ellipsis == <<".", ".", ".">>

RedactedPlaceholder == <<"<", "r", "e", "d", "a", "c", "t", "e", "d", ">">>

ArgsRedacted == <<" ", "<", "a", "r", "g", "s", " ", "r", "e", "d", "a", "c", "t", "e", "d", ">">>

is_inline_env_assignment(token) ==
    /\ Contains(token, "=")
    /\ ~StartsWith(token, <<"-">>)
    /\ ~Contains(token, "/")
    /\ ~Contains(token, "\\")

\* position in tokens of the first token that is not an inline assignment,
\* 0 when there is none (Iterator::find on tokens.by_ref())
ExecutableIndex(tokens) ==
    LET cand == {i \in 1..Len(tokens) : ~is_inline_env_assignment(tokens[i])}
    IN  IF cand = {} THEN 0
        ELSE CHOOSE i \in cand : \A j \in cand : i <= j

\* a character whose UTF-8 encoding has two bytes (U+00E9)
TwoByteChar == "<U+00E9>"

\* the number of bytes of the UTF-8 encoding of a character of the model
ByteLen(c) == IF c = TwoByteChar THEN 2 ELSE 1

\* String::len(): the length in bytes
Utf8Len(s) == Len(s) + Cardinality({i \in 1 .. Len(s) : s[i] = TwoByteChar})

\* the panic of String::truncate for a new length that is not on a char boundary
TruncatePanic == <<"<panic: new_len is not a char boundary>">>

\* String::truncate(new_len) for new_len below the length: the characters that
\* end at byte new_len
String_truncate(s, new_len) ==
    LET boundary == {k \in 0 .. Len(s) : Utf8Len(SubSeq(s, 1, k)) = new_len}
    IN  IF boundary = {} THEN TruncatePanic
        ELSE SubSeq(s, 1, CHOOSE k \in boundary : TRUE)

\* redact_command that counts characters where the code counts bytes
redact_command_by_chars(command) ==
    LET tokens == SplitWhitespace(command)
        k == ExecutableIndex(tokens)
        executable == IF k = 0 THEN RedactedPlaceholder ELSE tokens[k]
        redacted == IF Len(executable) > RedactTruncateAbove
                    THEN SubSeq(executable, 1, RedactTruncateTo) \o Ellipsis
                    ELSE executable
        more == k # 0 /\ k < Len(tokens)
    IN  IF more THEN redacted \o ArgsRedacted ELSE redacted

\* redact_command(command); TruncatePanic when redacted.truncate(77) panics
redact_command(command) ==
    LET tokens == SplitWhitespace(command)
        k == ExecutableIndex(tokens)
        executable == IF k = 0 THEN RedactedPlaceholder ELSE tokens[k]
        cut == Utf8Len(executable) > RedactTruncateAbove
        truncated == IF cut THEN String_truncate(executable, RedactTruncateTo)
                     ELSE executable
        redacted == IF cut THEN truncated \o Ellipsis ELSE executable
        more == k # 0 /\ k < Len(tokens)
    IN  IF truncated = TruncatePanic THEN TruncatePanic
        ELSE IF more THEN redacted \o ArgsRedacted ELSE redacted

----------------------------------------------------------------------------
(* executor.rs: results and errors *)

NoResult == [tag |-> "NoResult"]

NotRun == [tag |-> "NotRun"]

NoOutcome == [kind |-> "NoOutcome"]

Ok == [tag |-> "Ok"]

ExecutionFailed(code) == [tag |-> "ExecutionFailed", code |-> code]

ExecutionTerminatedBySignal == [tag |-> "ExecutionTerminatedBySignal"]

NoHooksConfigured(p) == [tag |-> "NoHooksConfigured", phase |-> p]

NoCommandDefined == [tag |-> "NoCommandDefined"]

CommandSpawnFailed(command, shell, source) ==
    [tag |-> "CommandSpawnFailed", command |-> command, shell |-> shell, source |-> source]

\* the thread that ran execute_command panicked
Panicked == [tag |-> "Panicked"]

IsErr(r) == r.tag \notin {"Ok", "NoResult", "NotRun"}

\* what CommandRunner::run can return: Ok(Some(code)), Ok(None), Err(io::Error)
ExitCodes == {0, 1, 2}

IoErrorKinds == {"NotFound", "PermissionDenied"}

RunnerOutcomes ==
    [kind : {"Exit"}, code : ExitCodes]
        \cup {[kind |-> "NoCode"]}
        \cup [kind : {"SpawnError"}, source : IoErrorKinds]

shell_display(pf) == IF pf = "Windows" THEN "cmd.exe /C" ELSE "sh -c"

\* the map_err closure of execute_command: the error of a failed spawn, built
\* from the redacted command
SpawnFailure(command, pf, source) ==
    IF redact_command(command) = TruncatePanic THEN Panicked
    ELSE CommandSpawnFailed(redact_command(command), shell_display(pf), source)

\* ClassifyOutcome with a missing exit code taken for success (status.code().unwrap_or(0))
ClassifyOutcomeNoCodeIsOk(command, outcome, pf) ==
    IF outcome.kind = "SpawnError"
    THEN SpawnFailure(command, pf, outcome.source)
    ELSE IF outcome.kind = "NoCode"
         THEN Ok
         ELSE IF outcome.code = 0 THEN Ok ELSE ExecutionFailed(outcome.code)

\* ClassifyOutcome with exit code 1 taken for success as well (code <= 1)
ClassifyOutcomeOneIsOk(command, outcome, pf) ==
    IF outcome.kind = "SpawnError"
    THEN SpawnFailure(command, pf, outcome.source)
    ELSE IF outcome.kind = "NoCode"
         THEN ExecutionTerminatedBySignal
         ELSE IF outcome.code <= 1 THEN Ok ELSE ExecutionFailed(outcome.code)

\* execute_command after runner.run returned `outcome`
ClassifyOutcome(command, outcome, pf) ==
    IF outcome.kind = "SpawnError"
    THEN SpawnFailure(command, pf, outcome.source)
    ELSE IF outcome.kind = "NoCode"
         THEN ExecutionTerminatedBySignal
         ELSE IF outcome.code = 0 THEN Ok ELSE ExecutionFailed(outcome.code)

----------------------------------------------------------------------------
(* executor.rs: one phase run *)

Phases == {"pre-commit", "pre-push"}

CmdBlank == <<" ", "\t">>

CmdDeploy == <<"K", "=", "v", " ", "x", " ", "-", "s">>

ExecCommands == {CmdBlank, CmdDeploy}

HookDefinition == [command : ExecCommands, parallel_execution_allowed : BOOLEAN]

HookLists == UNION {[1..n -> HookDefinition] : n \in 1..MaxHooks}

Hooks == smee_config[phase]

\* the two filtered views of run_hooks_with_runner, as hook indices in declared order
RECURSIVE FilterIdx(_, _, _)
FilterIdx(hooks, i, wantParallel) ==
    IF i > Len(hooks) THEN <<>>
    ELSE IF hooks[i].parallel_execution_allowed = wantParallel
         THEN <<i>> \o FilterIdx(hooks, i + 1, wantParallel)
         ELSE FilterIdx(hooks, i + 1, wantParallel)

parallel_hooks(hooks) == FilterIdx(hooks, 1, TRUE)

sequential_hooks(hooks) == FilterIdx(hooks, 1, FALSE)

Range(s) == {s[i] : i \in 1..Len(s)}

ExecInit ==
    /\ platform \in {"Unix", "Windows"}
    /\ \E hs \in HookLists : smee_config = [p \in {"pre-commit"} |-> hs]
    /\ phase \in Phases
    /\ pc = "Idle"
    /\ seq_idx = 1
    /\ seq_running = FALSE
    /\ par = <<>>
    /\ results = <<>>
    /\ calls = <<>>
    /\ outcomes = <<>>
    /\ result = NoResult
    /\ hooks_dir = <<>>
    /\ config_file = <<>>
    /\ orig_hooks_dir = <<>>
    /\ orig_config = <<>>
    /\ force_used = FALSE
    /\ clean_runs = <<>>
    /\ last_op = <<>>
    /\ cmd = <<>>
    /\ cmd_result = NoResult
    /\ config_source = <<>>
    /\ hook_arg = ""
    /\ cli_pc = "Idle"
    /\ config_result = NoResult
    /\ phase_result = NoResult
    /\ engine_calls = <<>>
    /\ run_result = NoResult
    /\ cli_command = "none"
    /\ install_calls = <<>>
    /\ file_bytes = <<>>
    /\ headed = NoResult
    /\ managed = NoResult
    /\ platform_run = NoResult
    /\ custom_path = FALSE
    /\ exit_code = -1
    /\ chmod_call = NoResult
    /\ escape_call = NoResult

\* ExecuteHook with an absent phase treated as a phase without work
ExecuteHookAbsentIsOk ==
    /\ pc = "Idle"
    /\ IF phase \notin DOMAIN smee_config
       THEN /\ pc' = "Completed"
            /\ result' = Ok
            /\ UNCHANGED <<par, results, outcomes>>
       ELSE /\ pc' = "RunningSequential"
            /\ par' = [h \in Range(parallel_hooks(smee_config[phase])) |-> "pending"]
            /\ results' = [h \in 1..Len(smee_config[phase]) |-> NotRun]
            /\ outcomes' = [h \in 1..Len(smee_config[phase]) |-> NoOutcome]
            /\ UNCHANGED result
    /\ UNCHANGED <<platform, smee_config, phase, seq_idx, seq_running, calls>>

\* execute_hook_with_runner: the phase lookup
ExecuteHook ==
    /\ pc = "Idle"
    /\ IF phase \notin DOMAIN smee_config
       THEN /\ pc' = "Failed"
            /\ result' = NoHooksConfigured(phase)
            /\ UNCHANGED <<par, results, outcomes>>
       ELSE /\ pc' = "RunningSequential"
            /\ par' = [h \in Range(parallel_hooks(Hooks)) |-> "pending"]
            /\ results' = [h \in 1..Len(Hooks) |-> NotRun]
            /\ outcomes' = [h \in 1..Len(Hooks) |-> NoOutcome]
            /\ UNCHANGED result
    /\ UNCHANGED <<platform, smee_config, phase, seq_idx, seq_running, calls>>

\* SeqStart without the test for an empty command
SeqStartNoBlankCheck ==
    /\ pc = "RunningSequential"
    /\ ~seq_running
    /\ seq_idx <= Len(sequential_hooks(smee_config[phase]))
    /\ calls' = Append(calls, sequential_hooks(smee_config[phase])[seq_idx])
    /\ seq_running' = TRUE
    /\ UNCHANGED <<results, result, pc>>
    /\ UNCHANGED <<platform, smee_config, phase, seq_idx, par, outcomes>>

\* SeqStart that does not wait for the command that is running
SeqStartOverlapping ==
    /\ pc = "RunningSequential"
    /\ seq_idx + (IF seq_running THEN 1 ELSE 0) <= Len(sequential_hooks(smee_config[phase]))
    /\ calls' = Append(calls, sequential_hooks(smee_config[phase])[seq_idx + (IF seq_running THEN 1 ELSE 0)])
    /\ seq_running' = TRUE
    /\ seq_idx' = seq_idx + (IF seq_running THEN 1 ELSE 0)
    /\ UNCHANGED <<platform, smee_config, phase, pc, par, results, outcomes, result>>

\* sequential try_for_each: execute_command enters for the next sequential hook
SeqStart ==
    /\ pc = "RunningSequential"
    /\ ~seq_running
    /\ seq_idx <= Len(sequential_hooks(Hooks))
    /\ LET h == sequential_hooks(Hooks)[seq_idx]
       IN  IF TrimIsEmpty(Hooks[h].command)
           THEN /\ results' = [results EXCEPT ![h] = NoCommandDefined]
                /\ result' = NoCommandDefined
                /\ pc' = "Failed"
                /\ UNCHANGED <<calls, seq_running>>
           ELSE /\ calls' = Append(calls, h)
                /\ seq_running' = TRUE
                /\ UNCHANGED <<results, result, pc>>
    /\ UNCHANGED <<platform, smee_config, phase, seq_idx, par, outcomes>>

\* SeqFinish with the error of a sequential command dropped (for_each for try_for_each)
SeqFinishIgnoreError ==
    /\ pc = "RunningSequential"
    /\ seq_running
    /\ \E outcome \in RunnerOutcomes :
         LET h == sequential_hooks(smee_config[phase])[seq_idx]
             r == ClassifyOutcome(smee_config[phase][h].command, outcome, platform)
         IN  /\ results' = [results EXCEPT ![h] = r]
             /\ outcomes' = [outcomes EXCEPT ![h] = outcome]
             /\ seq_running' = FALSE
             /\ seq_idx' = seq_idx + 1
             /\ UNCHANGED <<pc, result>>
    /\ UNCHANGED <<platform, smee_config, phase, par, calls>>

\* SeqFinish that leaves a failed sequential command to be started again
SeqFinishRetry ==
    /\ pc = "RunningSequential"
    /\ seq_running
    /\ \E outcome \in RunnerOutcomes :
         LET h == sequential_hooks(smee_config[phase])[seq_idx]
             r == ClassifyOutcome(smee_config[phase][h].command, outcome, platform)
         IN  /\ results' = [results EXCEPT ![h] = r]
             /\ outcomes' = [outcomes EXCEPT ![h] = outcome]
             /\ seq_running' = FALSE
             /\ seq_idx' = IF r = Ok THEN seq_idx + 1 ELSE seq_idx
             /\ UNCHANGED <<pc, result>>
    /\ UNCHANGED <<platform, smee_config, phase, par, calls>>

\* the runner returns for the running sequential command
SeqFinish ==
    /\ pc = "RunningSequential"
    /\ seq_running
    /\ \E outcome \in RunnerOutcomes :
         LET h == sequential_hooks(Hooks)[seq_idx]
             r == ClassifyOutcome(Hooks[h].command, outcome, platform)
         IN  /\ results' = [results EXCEPT ![h] = r]
             /\ outcomes' = [outcomes EXCEPT ![h] = outcome]
             /\ seq_running' = FALSE
             /\ IF r = Ok
                THEN /\ seq_idx' = seq_idx + 1
                     /\ UNCHANGED <<pc, result>>
                ELSE /\ pc' = "Failed"
                     /\ result' = r
                     /\ UNCHANGED seq_idx
    /\ UNCHANGED <<platform, smee_config, phase, par, calls>>

\* SeqComplete without waiting for the end of the sequential group
SeqCompleteEarly ==
    /\ pc = "RunningSequential"
    /\ ~seq_running
    /\ pc' = "RunningParallel"
    /\ UNCHANGED <<platform, smee_config, phase, seq_idx, seq_running, par, results, calls, outcomes, result>>

\* the sequential try_for_each returned Ok: go on to par_iter().try_for_each
SeqComplete ==
    /\ pc = "RunningSequential"
    /\ ~seq_running
    /\ seq_idx > Len(sequential_hooks(Hooks))
    /\ pc' = "RunningParallel"
    /\ UNCHANGED <<platform, smee_config, phase, seq_idx, seq_running, par, results, calls, outcomes, result>>

NumRunning == Cardinality({h \in DOMAIN par : par[h] = "running"})

ParFailureSeen == \E h \in DOMAIN par : par[h] = "done" /\ IsErr(results[h])

\* ParStart on a pool without a bound on its workers
ParStartUnbounded(h) ==
    /\ pc = "RunningParallel"
    /\ par[h] = "pending"
    /\ IF TrimIsEmpty(smee_config[phase][h].command)
       THEN /\ results' = [results EXCEPT ![h] = NoCommandDefined]
            /\ par' = [par EXCEPT ![h] = "done"]
            /\ UNCHANGED calls
       ELSE /\ calls' = Append(calls, h)
            /\ par' = [par EXCEPT ![h] = "running"]
            /\ UNCHANGED results
    /\ UNCHANGED <<platform, smee_config, phase, pc, seq_idx, seq_running, outcomes, result>>

\* a pool worker takes a pending parallel hook and enters execute_command
ParStart(h) ==
    /\ pc = "RunningParallel"
    /\ par[h] = "pending"
    /\ NumRunning < NumThreads
    /\ IF TrimIsEmpty(Hooks[h].command)
       THEN /\ results' = [results EXCEPT ![h] = NoCommandDefined]
            /\ par' = [par EXCEPT ![h] = "done"]
            /\ UNCHANGED calls
       ELSE /\ calls' = Append(calls, h)
            /\ par' = [par EXCEPT ![h] = "running"]
            /\ UNCHANGED results
    /\ UNCHANGED <<platform, smee_config, phase, pc, seq_idx, seq_running, outcomes, result>>

\* ParSkip that also drops a command that is running
ParSkipRunning(h) ==
    /\ pc = "RunningParallel"
    /\ par[h] \in {"pending", "running"}
    /\ \E g \in DOMAIN par : par[g] = "done" /\ IsErr(results[g])
    /\ par' = [par EXCEPT ![h] = "skipped"]
    /\ UNCHANGED <<platform, smee_config, phase, pc, seq_idx, seq_running, results, calls, outcomes, result>>

\* try_for_each short-circuit: after a failure was recorded, an item not yet
\* started may be dropped without running
ParSkip(h) ==
    /\ pc = "RunningParallel"
    /\ par[h] = "pending"
    /\ ParFailureSeen
    /\ par' = [par EXCEPT ![h] = "skipped"]
    /\ UNCHANGED <<platform, smee_config, phase, pc, seq_idx, seq_running, results, calls, outcomes, result>>

\* the runner returns for a running parallel command
ParFinish(h) ==
    /\ pc = "RunningParallel"
    /\ par[h] = "running"
    /\ \E outcome \in RunnerOutcomes :
         /\ results' = [results EXCEPT ![h] = ClassifyOutcome(Hooks[h].command, outcome, platform)]
         /\ outcomes' = [outcomes EXCEPT ![h] = outcome]
         /\ par' = [par EXCEPT ![h] = "done"]
    /\ UNCHANGED <<platform, smee_config, phase, pc, seq_idx, seq_running, calls, result>>

\* ParJoin with the errors of the parallel group dropped (for_each for try_for_each)
ParJoinIgnoreErrors ==
    /\ pc = "RunningParallel"
    /\ \A h \in DOMAIN par : par[h] \in {"done", "skipped"}
    /\ result' = Ok
    /\ pc' = "Completed"
    /\ UNCHANGED <<platform, smee_config, phase, seq_idx, seq_running, par, results, calls, outcomes>>

\* ParJoin that starts the phase run over after a parallel failure
ParJoinRestart ==
    /\ pc = "RunningParallel"
    /\ \A h \in DOMAIN par : par[h] \in {"done", "skipped"}
    /\ IF \E h \in DOMAIN par : par[h] = "done" /\ IsErr(results[h])
       THEN /\ pc' = "RunningSequential"
            /\ UNCHANGED result
       ELSE /\ result' = Ok
            /\ pc' = "Completed"
    /\ UNCHANGED <<platform, smee_config, phase, seq_idx, seq_running, par, results, calls, outcomes>>

\* ParJoin that returns the first failure it sees without waiting for the
\* commands that are still running
ParJoinWithoutWaiting ==
    /\ pc = "RunningParallel"
    /\ \/ \A h \in DOMAIN par : par[h] \in {"done", "skipped"}
       \/ \E h \in DOMAIN par : par[h] = "done" /\ IsErr(results[h])
    /\ IF \E h \in DOMAIN par : par[h] = "done" /\ IsErr(results[h])
       THEN /\ \E h \in DOMAIN par :
                 /\ par[h] = "done"
                 /\ IsErr(results[h])
                 /\ result' = results[h]
            /\ pc' = "Failed"
       ELSE /\ result' = Ok
            /\ pc' = "Completed"
    /\ UNCHANGED <<platform, smee_config, phase, seq_idx, seq_running, par, results, calls, outcomes>>

\* par_iter().try_for_each returns once every item is finished or dropped
ParJoin ==
    /\ pc = "RunningParallel"
    /\ \A h \in DOMAIN par : par[h] \in {"done", "skipped"}
    /\ IF ParFailureSeen
       THEN /\ \E h \in DOMAIN par :
                 /\ par[h] = "done"
                 /\ IsErr(results[h])
                 /\ result' = results[h]
            /\ pc' = "Failed"
       ELSE /\ result' = Ok
            /\ pc' = "Completed"
    /\ UNCHANGED <<platform, smee_config, phase, seq_idx, seq_running, par, results, calls, outcomes>>

ExecStep ==
    \/ ExecuteHook
    \/ SeqStart
    \/ SeqFinish
    \/ SeqComplete
    \/ \E h \in DOMAIN par : ParStart(h)
    \/ \E h \in DOMAIN par : ParSkip(h)
    \/ \E h \in DOMAIN par : ParFinish(h)
    \/ ParJoin

ExecNext == ExecStep /\ UNCHANGED <<instVars, cmdVars, cliVars, cliInstallVars, markerVars, shellVars, procVars, platformVars>>

SpecExec == ExecInit /\ [][ExecNext]_vars

\* the steps of the control thread and of the pool: they are taken when they can be
ControlStep ==
    \/ ExecuteHook
    \/ SeqStart
    \/ SeqComplete
    \/ \E h \in DOMAIN par : ParStart(h)
    \/ \E h \in DOMAIN par : ParSkip(h)
    \/ ParJoin

\* .status() returns: the command the runner waits for terminates
CommandTerminates ==
    \/ SeqFinish
    \/ \E h \in DOMAIN par : ParFinish(h)

\* a phase run in which the threads keep running and every invoked command
\* eventually terminates
SpecExecLive ==
    /\ ExecInit
    /\ [][ExecNext]_vars
    /\ WF_vars(ControlStep /\ UNCHANGED <<instVars, cmdVars, cliVars, cliInstallVars, markerVars, shellVars, procVars, platformVars>>)
    /\ WF_vars(CommandTerminates /\ UNCHANGED <<instVars, cmdVars, cliVars, cliInstallVars, markerVars, shellVars, procVars, platformVars>>)

----------------------------------------------------------------------------
(* Properties of one phase run, checked under SpecExec *)

Configured == phase \in DOMAIN smee_config

Started == pc # "Idle" /\ Configured

IsPar(h) == Hooks[h].parallel_execution_allowed

SeqSet == Range(sequential_hooks(Hooks))

ParSet == Range(parallel_hooks(Hooks))

Invoked(h) == \E i \in 1..Len(calls) : calls[i] = h

\* execute_command was entered for parallel hook h
ParEntered(h) == par[h] \in {"running", "done"}

\* C1: every sequential entry is invoked, in declared order, before any parallel
\* entry is started, however the two kinds are interleaved in the declaration:
\* in the log of runner calls no sequential entry follows a parallel one, the
\* sequential entries appear in increasing declared position, and once any
\* parallel entry has been started every sequential entry has been invoked and
\* has returned success.
C1_SequentialBeforeParallel ==
    Started =>
        /\ \A i, j \in 1..Len(calls) :
              i < j =>
                /\ (IsPar(calls[i]) => IsPar(calls[j]))
                /\ (~IsPar(calls[i]) /\ ~IsPar(calls[j]) => calls[i] < calls[j])
        /\ (\E h \in ParSet : ParEntered(h)) =>
              \A s \in SeqSet : Invoked(s) /\ results[s] = Ok

\* C1 witness: a parallel entry is declared before two sequential ones, and the
\* run invoked the two sequential entries first and the parallel one last.
C1_Witness ==
    /\ Started
    /\ Len(Hooks) = 3
    /\ IsPar(1) /\ ~IsPar(2) /\ ~IsPar(3)
    /\ calls = <<2, 3, 1>>

\* C2: once a sequential command has failed (nonzero exit, signal termination,
\* spawn failure or empty command), the run is Failed with that command's error
\* as the result, and no later sequential entry and no parallel entry has been
\* entered or invoked.
C2_SequentialFailureShortCircuits ==
    Started =>
        \A s \in SeqSet :
            IsErr(results[s]) =>
                /\ pc = "Failed"
                /\ result = results[s]
                /\ \A h \in 1..Len(Hooks) :
                      (h \in ParSet \/ (h \in SeqSet /\ h > s)) =>
                          /\ ~Invoked(h)
                          /\ results[h] = NotRun
                          /\ outcomes[h] = NoOutcome
                /\ \A h \in ParSet : par[h] = "pending"

\* C2 witness: the first of two sequential entries failed to spawn, with a
\* parallel entry declared as well.
C2_Witness ==
    /\ Started
    /\ Len(Hooks) = 3
    /\ ~IsPar(1) /\ ~IsPar(2) /\ IsPar(3)
    /\ results[1].tag = "CommandSpawnFailed"
    /\ pc = "Failed"

DeployRedacted == <<"x">> \o ArgsRedacted

\* C9: every runner outcome of a non-empty command is classified totally and
\* exclusively: exit code 0 is success, a nonzero code c is ExecutionFailed(c),
\* no exit code is ExecutionTerminatedBySignal, and a spawn failure is
\* CommandSpawnFailed with the redacted command, the shell description of the
\* platform and the OS error of the runner.
C9_OutcomeClassification ==
    Started =>
        \A h \in 1..Len(Hooks) :
            LET o == outcomes[h]
                r == results[h]
            IN  /\ (o = NoOutcome) = (r \in {NotRun, NoCommandDefined})
                /\ o # NoOutcome => ~TrimIsEmpty(Hooks[h].command)
                /\ (o.kind = "Exit" /\ o.code = 0) => r = Ok
                /\ (o.kind = "Exit" /\ o.code # 0) =>
                      r = [tag |-> "ExecutionFailed", code |-> o.code]
                /\ o.kind = "NoCode" => r = [tag |-> "ExecutionTerminatedBySignal"]
                /\ o.kind = "SpawnError" =>
                      r = [tag |-> "CommandSpawnFailed",
                           command |-> DeployRedacted,
                           shell |-> IF platform = "Windows" THEN "cmd.exe /C" ELSE "sh -c",
                           source |-> o.source]
                /\ r = Ok => (o.kind = "Exit" /\ o.code = 0)

\* C9 witness: in one run a command exited with code 2, one ended without an
\* exit code and one could not be spawned.
C9_Witness ==
    /\ Started
    /\ \E h \in 1..Len(Hooks) : outcomes[h] = [kind |-> "Exit", code |-> 2]
    /\ \E h \in 1..Len(Hooks) : outcomes[h] = [kind |-> "NoCode"]
    /\ \E h \in 1..Len(Hooks) :
          outcomes[h] = [kind |-> "SpawnError", source |-> "PermissionDenied"]

Returned == pc \in {"Completed", "Failed"}

\* C10: when the run has returned, the sequential group fully succeeded and at
\* least one parallel command failed, the result is an error, and it is the
\* result of a parallel command that was entered and failed in this run.
C10_ParallelFailureIsReturned ==
    (Started /\ Returned
       /\ (\A s \in SeqSet : results[s] = Ok)
       /\ (\E h \in ParSet : IsErr(results[h]))) =>
        /\ IsErr(result)
        /\ pc = "Failed"
        /\ \E h \in ParSet : ParEntered(h) /\ IsErr(results[h]) /\ result = results[h]
        /\ \A h \in 1..Len(Hooks) : results[h] \in {Ok, NotRun} => result # results[h]

\* C10 witness: two parallel commands failed with different errors and the one
\* returned is the error of the entry declared later.
C10_Witness ==
    /\ Started /\ Returned
    /\ Len(Hooks) = 3
    /\ ~IsPar(1) /\ IsPar(2) /\ IsPar(3)
    /\ results[1] = Ok
    /\ results[2] = ExecutionFailed(1)
    /\ results[3] = ExecutionTerminatedBySignal
    /\ result = results[3]

\* C11: a parallel command that is running stays running until the runner
\* returns for it: no step drops it or ends the run while it is running, also
\* when a sibling has already failed; it ends only as done, with the runner's
\* outcome recorded.
C11_NoCancellation ==
    [][\A h \in DOMAIN par :
          par[h] = "running" =>
              /\ pc' = "RunningParallel"
              /\ par'[h] \in {"running", "done"}
              /\ par'[h] = "done" =>
                    /\ outcomes'[h] \in RunnerOutcomes
                    /\ results'[h] = ClassifyOutcome(Hooks[h].command, outcomes'[h], platform)
      ]_vars

\* a parallel command is running while a sibling has already failed
C11_Witness ==
    /\ Started
    /\ Len(Hooks) = 2
    /\ IsPar(1) /\ IsPar(2)
    /\ par[1] = "done" /\ IsErr(results[1])
    /\ par[2] = "running"

\* C12: a run for a phase that is no key of the configuration has returned
\* NoHooksConfigured naming that phase, and no command was invoked or entered,
\* whatever the configuration holds for other phases.
C12_AbsentPhaseIsNoHooksConfigured ==
    (pc # "Idle" /\ ~Configured) =>
        /\ pc = "Failed"
        /\ result = [tag |-> "NoHooksConfigured", phase |-> phase]
        /\ calls = <<>>
        /\ results = <<>> /\ outcomes = <<>> /\ par = <<>>

\* pre-push was run on a configuration that holds three hooks for pre-commit only
C12_Witness ==
    /\ phase = "pre-push"
    /\ DOMAIN smee_config = {"pre-commit"}
    /\ Len(smee_config["pre-commit"]) = 3
    /\ result = NoHooksConfigured("pre-push")

\* C13: a hook whose command is empty or whitespace only is never passed to the
\* runner: it has no runner outcome, its result is NoCommandDefined once
\* execute_command was entered for it, no other result is NoCommandDefined, and
\* the run does not complete.
C13_BlankCommandNeverInvoked ==
    Started =>
        \A h \in 1..Len(Hooks) :
            IF TrimIsEmpty(Hooks[h].command)
            THEN /\ ~Invoked(h)
                 /\ outcomes[h] = NoOutcome
                 /\ results[h] \in {NotRun, NoCommandDefined}
                 /\ (h \in ParSet /\ par[h] = "done") => results[h] = NoCommandDefined
                 /\ \A i \in 1..Len(sequential_hooks(Hooks)) :
                        sequential_hooks(Hooks)[i] = h =>
                            /\ seq_idx <= i
                            /\ (seq_idx = i /\ pc = "Failed") =>
                                  results[h] = NoCommandDefined /\ result = NoCommandDefined
                 /\ pc # "Completed"
            ELSE results[h] # NoCommandDefined

\* the second sequential command is blank: the first was invoked, the second was
\* not, and the run failed with NoCommandDefined
C13_Witness ==
    /\ Started
    /\ Len(Hooks) = 2
    /\ ~IsPar(1) /\ ~IsPar(2)
    /\ Hooks[2].command = CmdBlank
    /\ calls = <<1>>
    /\ result = NoCommandDefined

\* the transitions of a phase run
PhaseRunTransitions ==
    {<<"Idle", "RunningSequential">>, <<"Idle", "Failed">>,
     <<"RunningSequential", "RunningParallel">>, <<"RunningSequential", "Failed">>,
     <<"RunningParallel", "Completed">>, <<"RunningParallel", "Failed">>}

\* C27: the position of a phase run changes only along Idle -> RunningSequential
\* -> RunningParallel -> Completed, or to Failed; the index into the sequential
\* group only grows, by one; RunningParallel is entered only when every
\* sequential command has returned success; Failed is entered from the sequential
\* group exactly when the current sequential command fails and from the parallel
\* group only with a failed parallel command, which in turn rules out Completed;
\* Completed and Failed are never left.
C27_PhaseRunTransitions ==
    [][/\ pc' # pc => <<pc, pc'>> \in PhaseRunTransitions
       /\ pc \in {"Completed", "Failed"} => (pc' = pc /\ result' = result /\ calls' = calls)
       /\ (pc = "RunningSequential" /\ pc' = "RunningSequential") =>
             seq_idx' \in {seq_idx, seq_idx + 1}
       /\ (pc = "RunningSequential" /\ pc' = "RunningParallel") =>
             /\ seq_idx > Len(sequential_hooks(Hooks))
             /\ \A s \in SeqSet : results[s] = Ok
       /\ pc = "RunningSequential" =>
             ((pc' = "Failed") <=> (\E s \in SeqSet : IsErr(results'[s])))
       /\ (pc = "RunningSequential" /\ pc' = "Failed") =>
             LET s == sequential_hooks(Hooks)[seq_idx]
             IN  /\ IsErr(results'[s]) /\ result' = results'[s]
                 /\ \A t \in SeqSet : t # s =>
                       results'[t] = (IF t < s THEN Ok ELSE NotRun)
       /\ (pc = "RunningParallel" /\ pc' = "Failed") =>
             \E h \in ParSet : IsErr(results[h]) /\ result' = results[h]
       /\ (pc = "RunningParallel" /\ pc' = "Completed") =>
             /\ result' = Ok
             /\ \A h \in 1..Len(Hooks) : results[h] = Ok
       /\ (pc' = "Completed" \/ pc = "Completed") => result' = Ok
       /\ pc' = "Failed" => IsErr(result')
      ]_vars

\* one sequential command succeeded, the first parallel one succeeded and the
\* second failed: the run went Idle, RunningSequential, RunningParallel, Failed
C27_Witness ==
    /\ Started
    /\ Len(Hooks) = 3
    /\ ~IsPar(1) /\ IsPar(2) /\ IsPar(3)
    /\ results[1] = Ok /\ results[2] = Ok /\ IsErr(results[3])
    /\ pc = "Failed"
    /\ result = results[3]

\* C28: in a phase run no entry is invoked more than once, whether the run is
\* under way, completed or failed; in particular an entry whose command failed
\* appears once in the log of runner calls.
C28_NoRetry ==
    Started =>
        /\ \A i, j \in 1..Len(calls) : calls[i] = calls[j] => i = j
        /\ Len(calls) <= Len(Hooks)
        /\ \A h \in 1..Len(Hooks) :
              (IsErr(results[h]) /\ results[h] # NoCommandDefined) =>
                  Cardinality({i \in 1..Len(calls) : calls[i] = h}) = 1

\* the second of three sequential commands failed after being invoked once, and
\* the run ended Failed with two runner calls
C28_Witness ==
    /\ Started
    /\ Len(Hooks) = 3
    /\ ~IsPar(1) /\ ~IsPar(2) /\ ~IsPar(3)
    /\ pc = "Failed"
    /\ results[1] = Ok /\ IsErr(results[2]) /\ results[2] # NoCommandDefined
    /\ calls = <<1, 2>>

\* how often the runner was called for hook h
TimesInvoked(h) == Cardinality({i \in 1..Len(calls) : calls[i] = h})

ExitedZero(h) == outcomes[h] = [kind |-> "Exit", code |-> 0]

\* C34: when the run has returned, the result is Ok exactly when the phase is
\* configured and the runner was called exactly once for every entry of the
\* phase, sequential and parallel, and returned exit code 0 each time; otherwise
\* the result is an error.
C34_OkIffEveryEntrySucceeded ==
    Returned =>
        /\ result = Ok <=>
              /\ Configured
              /\ \A h \in 1..Len(Hooks) : TimesInvoked(h) = 1 /\ ExitedZero(h)
        /\ result # Ok => IsErr(result)
        /\ result = Ok <=> pc = "Completed"

\* a sequential and two parallel commands all exited with code 0: the run is Ok
C34_Witness ==
    /\ Started /\ Returned
    /\ Len(Hooks) = 3
    /\ ~IsPar(1) /\ IsPar(2) /\ IsPar(3)
    /\ \A h \in 1..3 : TimesInvoked(h) = 1 /\ ExitedZero(h)
    /\ result = Ok

\* a run in which the only parallel command exited with code 1 is an error
C34_WitnessFailed ==
    /\ Started /\ Returned
    /\ Len(Hooks) = 2
    /\ ~IsPar(1) /\ IsPar(2)
    /\ ExitedZero(1)
    /\ outcomes[2] = [kind |-> "Exit", code |-> 1]
    /\ result = ExecutionFailed(1)

\* the hooks the runner was called for and has not returned for
RunningCommands ==
    {h \in 1..Len(Hooks) : Invoked(h) /\ outcomes[h] = NoOutcome}

\* C35: while the sequential group runs, at most one command is running and it
\* is a sequential one, the one at the current index; during the parallel stage
\* only parallel commands run, and never more than NumThreads at a time.
C35_BoundedConcurrency ==
    Started =>
        /\ pc = "RunningSequential" =>
              /\ Cardinality(RunningCommands) <= 1
              /\ RunningCommands \subseteq SeqSet
              /\ \A h \in RunningCommands :
                    seq_running /\ h = sequential_hooks(Hooks)[seq_idx]
              /\ \A h \in ParSet : par[h] = "pending"
        /\ pc = "RunningParallel" =>
              /\ RunningCommands \subseteq ParSet
              /\ RunningCommands = {h \in ParSet : par[h] = "running"}
              /\ Cardinality(RunningCommands) <= NumThreads

\* the pool is full: NumThreads parallel commands run and another one waits
C35_Witness ==
    /\ Started
    /\ pc = "RunningParallel"
    /\ Cardinality(RunningCommands) = NumThreads
    /\ \E h \in ParSet : par[h] = "pending"

\* C38: when the run has returned, with Ok or with an error, no command is
\* running: the runner has returned for every command it was called for, and
\* every parallel command that was started is done.
C38_ReturnsAfterEveryStartedCommand ==
    (Started /\ Returned) =>
        /\ RunningCommands = {}
        /\ ~seq_running
        /\ \A h \in ParSet : par[h] # "running"
        /\ \A h \in ParSet : Invoked(h) => par[h] = "done" /\ results[h] # NotRun

\* the run failed with the error of the first parallel command, and the second,
\* which was started before that failure was seen, has finished with success
C38_Witness ==
    /\ Started /\ Returned
    /\ Len(Hooks) = 2
    /\ IsPar(1) /\ IsPar(2)
    /\ calls = <<2, 1>>
    /\ results[1] = ExecutionFailed(1)
    /\ results[2] = Ok
    /\ result = ExecutionFailed(1)

\* C36: a phase run whose commands all terminate eventually reaches Completed or
\* Failed; and while a sequential command is running the only step of the run is
\* the return of that command, so that a command that never terminates keeps the
\* run where it is: the run does not end and no other command is started.
C36_TerminatesUnlessACommandHangs ==
    /\ <>(pc \in {"Completed", "Failed"})
    /\ [][seq_running =>
            /\ ~seq_running'
            /\ calls' = calls
            /\ outcomes'[sequential_hooks(Hooks)[seq_idx]] \in RunnerOutcomes
            /\ \A h \in 1..Len(Hooks) :
                  h # sequential_hooks(Hooks)[seq_idx] => outcomes'[h] = outcomes[h]
       ]_vars

\* the first of three sequential commands is running: the run has not ended and
\* the other two have not been started
C36_Witness ==
    /\ Started
    /\ Len(Hooks) = 3
    /\ ~IsPar(1) /\ ~IsPar(2) /\ ~IsPar(3)
    /\ seq_running /\ seq_idx = 1
    /\ pc = "RunningSequential"
    /\ calls = <<1>>

----------------------------------------------------------------------------
(* installer.rs: the managed marker *)

MANAGED_FILE_MARKER ==
    <<"T", "H", "I", "S", " ", "F", "I", "L", "E", " ", "I", "S", " ", "M", "A", "N", "A", "G",
      "E", "D", " ", "B", "Y", " ", "g", "i", "t", "-", "s", "m", "e", "e">>

marker_hash == <<"#", " ">> \o MANAGED_FILE_MARKER

marker_rem == <<"R", "E", "M", " ">> \o MANAGED_FILE_MARKER

HeaderBufLen == 1024

HeaderMaxLines == 8

\* with_managed_header_with_prefix that puts the marker first whatever the content
with_managed_header_prepend_only(content, comment_prefix) ==
    comment_prefix \o <<" ">> \o MANAGED_FILE_MARKER \o <<"\n", "\n">> \o content

\* with_managed_header_with_prefix(content, comment_prefix); prefix is "#" or "REM"
with_managed_header_with_prefix(content, comment_prefix) ==
    LET marker_line == comment_prefix \o <<" ">> \o MANAGED_FILE_MARKER
        nl == {i \in 1..Len(content) : content[i] = "\n"}
    IN  IF StartsWith(content, <<"#", "!">>)
        THEN IF nl # {}
             THEN LET shebang_end == CHOOSE i \in nl : \A j \in nl : i <= j
                  IN  SubSeq(content, 1, shebang_end) \o marker_line \o <<"\n", "\n">>
                        \o SubSeq(content, shebang_end + 1, Len(content))
             ELSE content \o <<"\n">> \o marker_line \o <<"\n", "\n">>
        ELSE marker_line \o <<"\n", "\n">> \o content

with_managed_header(content) == with_managed_header_with_prefix(content, <<"#">>)

----------------------------------------------------------------------------
(* installer.rs and platform.rs: rendering a hook script *)

\* str::replace(from, to) for a one-character pattern
RECURSIVE ReplaceChar(_, _, _, _)
ReplaceChar(s, i, from, to) ==
    IF i > Len(s) THEN <<>>
    ELSE (IF s[i] = from THEN to ELSE <<s[i]>>) \o ReplaceChar(s, i + 1, from, to)

\* a unit of a path that is not valid Unicode: a byte that is no UTF-8 on Unix,
\* an unpaired surrogate on Windows
InvalidUnit == "<invalid>"

\* U+FFFD REPLACEMENT CHARACTER
ReplacementChar == "<U+FFFD>"

\* Path::to_string_lossy: every invalid unit becomes U+FFFD
to_string_lossy(path) ==
    [i \in 1 .. Len(path) |-> IF path[i] = InvalidUnit THEN ReplacementChar ELSE path[i]]

shell_single_quote(path) ==
    <<"'">> \o ReplaceChar(to_string_lossy(path), 1, "'", <<"'", "\"", "'", "\"", "'">>)
        \o <<"'">>

cmd_escape(path) ==
    ReplaceChar(ReplaceChar(to_string_lossy(path), 1, "\"", <<"\"", "\"">>), 1, "%", <<"%", "%">>)

\* LifeCyclePhase::to_string for the phases of the model
Kebab(p) ==
    IF p = "pre-commit"
    THEN <<"p", "r", "e", "-", "c", "o", "m", "m", "i", "t">>
    ELSE <<"p", "r", "e", "-", "p", "u", "s", "h">>

\* HookScriptOptions of the install: the executable and the config path
git_smee_executable == <<"/", "o", "p", "t", "/", "i", "t", "'", "s", "/", "s", "m", "e", "e">>

config_path == <<".", "g", "i", "t", "-", "s", "m", "e", "e", ".", "t", "o", "m", "l">>

\* Platform::hook_script_template: the text between the placeholders.
\* scripts/hook_template_unix and scripts/hook_template_windows are not part of
\* the sources at hand; the text is the one the specification and the tests
\* describe: the marker comment first (after the shebang on Unix), then the
\* executable, the config path and the `run {hook}` line.
hook_script_template(pf) ==
    IF pf = "Windows"
    THEN << marker_rem \o <<"\r", "\n">>
              \o <<"s", "e", "t", " ", "\"", "G", "I", "T", "_", "S", "M", "E", "E", "_", "B", "I", "N", "=">>,
            "git_smee_executable",
            <<"\"", "\r", "\n", "s", "e", "t", " ", "\"", "G", "I", "T", "_", "S", "M", "E", "E", "_",
              "C", "O", "N", "F", "I", "G", "=">>,
            "config_path",
            <<"\"", "\r", "\n", "g", "i", "t", " ", "s", "m", "e", "e", " ", "r", "u", "n", " ">>,
            "hook",
            <<"\r", "\n">> >>
    ELSE << <<"#", "!", "/", "u", "s", "r", "/", "b", "i", "n", "/", "e", "n", "v", " ", "s", "h", "\n">>
              \o marker_hash \o <<"\n">>
              \o <<"G", "I", "T", "_", "S", "M", "E", "E", "_", "B", "I", "N", "=">>,
            "git_smee_executable",
            <<"\n", "G", "I", "T", "_", "S", "M", "E", "E", "_", "C", "O", "N", "F", "I", "G", "=">>,
            "config_path",
            <<"\n", "g", "i", "t", " ", "s", "m", "e", "e", " ", "r", "u", "n", " ">>,
            "hook",
            <<"\n">> >>

\* the three replace() calls of install_hooks_with_options on the template
RECURSIVE RenderFrom(_, _, _, _, _)
RenderFrom(template, i, hook, escaped_executable, escaped_config_path) ==
    IF i > Len(template) THEN <<>>
    ELSE (IF template[i] = "hook" THEN hook
          ELSE IF template[i] = "git_smee_executable" THEN escaped_executable
          ELSE IF template[i] = "config_path" THEN escaped_config_path
          ELSE template[i])
         \o RenderFrom(template, i + 1, hook, escaped_executable, escaped_config_path)

HookNames == {"pre-commit", "pre-push"}

Platforms == {"Unix", "Windows"}

\* the content install_hooks_with_options writes, by platform and phase
HookScripts ==
    [pf \in Platforms |->
        [p \in HookNames |->
            RenderFrom(hook_script_template(pf), 1, Kebab(p),
                       IF pf = "Windows" THEN cmd_escape(git_smee_executable)
                                         ELSE shell_single_quote(git_smee_executable),
                       IF pf = "Windows" THEN cmd_escape(config_path)
                                         ELSE shell_single_quote(config_path))]]

\* HookScript with the template text indented by one space
HookScriptIndented(p, pf) == <<" ">> \o HookScripts[pf][p]

HookScript(p, pf) == HookScripts[pf][p]

----------------------------------------------------------------------------
(* the file contents of the model *)

\* a hook script written by a user
UserHook ==
    <<"#", "!", "/", "b", "i", "n", "/", "s", "h", "\n", "e", "c", "h", "o", " ", "m", "y", "\n">>

\* a hook script an earlier version of the tool wrote
StaleManagedHook ==
    <<"#", "!", "/", "b", "i", "n", "/", "s", "h", "\n">> \o marker_hash
        \o <<"\n", "e", "c", "h", "o", " ", "o", "l", "d", "\n">>

\* a configuration written by a user
UserConfig ==
    <<"[", "[", "p", "r", "e", "-", "p", "u", "s", "h", "]", "]", "\n",
      "c", "o", "m", "m", "a", "n", "d", " ", "=", " ", "\"", "m", "y", "\"", "\n">>

\* the serialized default configuration
DefaultConfig ==
    <<"[", "[", "p", "r", "e", "-", "c", "o", "m", "m", "i", "t", "]", "]", "\n",
      "c", "o", "m", "m", "a", "n", "d", " ", "=", " ", "\"", "e", "c", "h", "o", "\"", "\n">>

----------------------------------------------------------------------------
(* installer.rs: recognising a managed file *)

\* the positions of the "\n" bytes of header
Newlines(header) == {i \in 1..Len(header) : header[i] = "\n"}

\* the first of the positions nls at or after `from`, 0 when there is none
NextNewline(nls, from) ==
    LET c == {i \in nls : i >= from}
    IN  IF c = {} THEN 0 ELSE CHOOSE i \in c : \A j \in c : i <= j

\* line.strip_suffix(b"\r").unwrap_or(line)
StripCr(line) ==
    IF Len(line) > 0 /\ line[Len(line)] = "\r" THEN SubSeq(line, 1, Len(line) - 1) ELSE line

IsMarkerLine(line) ==
    LET normalized_line == StripCr(line)
    IN  /\ normalized_line # <<>>
        /\ (normalized_line = marker_hash \/ normalized_line = marker_rem)

\* header.split(|b| *b == b'\n').take(8): is piece k, which starts at `from`, or a
\* later piece within the first HeaderMaxLines pieces a marker line
RECURSIVE AnyMarkerLine(_, _, _, _)
AnyMarkerLine(header, nls, from, k) ==
    IF k > HeaderMaxLines THEN FALSE
    ELSE LET nl == NextNewline(nls, from)
             line == SubSeq(header, from, IF nl = 0 THEN Len(header) ELSE nl - 1)
         IN  \/ IsMarkerLine(line)
             \/ (nl # 0 /\ AnyMarkerLine(header, nls, nl + 1, k + 1))

\* file.read(&mut header_buf): the first HeaderBufLen bytes
Header(content) ==
    SubSeq(content, 1, IF Len(content) < HeaderBufLen THEN Len(content) ELSE HeaderBufLen)

\* is_managed_file looking at the first line alone
is_managed_file_first_line_only(content) ==
    LET header == Header(content)
        nl == NextNewline(Newlines(header), 1)
    IN  IsMarkerLine(SubSeq(header, 1, IF nl = 0 THEN Len(header) ELSE nl - 1))

\* the loop of is_managed_file over the lines of the header
HasMarkerLine(content) ==
    LET header == Header(content)
    IN  AnyMarkerLine(header, Newlines(header), 1, 1)

\* the contents that files of the model hold
KnownContents ==
    {UserHook, StaleManagedHook, with_managed_header(UserHook), UserConfig,
     with_managed_header(UserConfig), with_managed_header(DefaultConfig)}
        \cup {HookScript(p, pf) : p \in HookNames, pf \in Platforms}

\* those of them in which the loop finds a marker line; computed once
KnownManaged == {c \in KnownContents : HasMarkerLine(c)}

\* FileSystemHookInstaller::is_managed_file on a readable file with these bytes
is_managed_file(content) ==
    IF content \in KnownContents THEN content \in KnownManaged ELSE HasMarkerLine(content)

----------------------------------------------------------------------------
(* installer.rs: files, errors and the overwrite protocol *)

Absent == [exists |-> FALSE]

File(content, mode) == [exists |-> TRUE, content |-> content, mode |-> mode]

\* mode of a file created by fs::write (0o644)
DefaultFileMode == 420

\* mode of a hook script a user made executable (0o755)
ExecutableFileMode == 493

InstallOk(path) == [tag |-> "Ok", path |-> path]

NoHooksPresent == [tag |-> "NoHooksPresent"]

FailedToWriteHook(path) == [tag |-> "FailedToWriteHook", path |-> path]

FailedToWriteConfigFile(path) == [tag |-> "FailedToWriteConfigFile", path |-> path]

\* Error::PlatformError: make_executable failed on the hook file at path
PlatformError(path) == [tag |-> "PlatformError", path |-> path]

RefusingToOverwriteUnmanagedHookFile(path) ==
    [tag |-> "RefusingToOverwriteUnmanagedHookFile", path |-> path]

RefusingToOverwriteUnmanagedConfigFile(path) ==
    [tag |-> "RefusingToOverwriteUnmanagedConfigFile", path |-> path]

RefusingToOverwriteManagedConfigFile(path) ==
    [tag |-> "RefusingToOverwriteManagedConfigFile", path |-> path]

DEFAULT_CONFIG_FILE_NAME == ".git-smee.toml"

\* ensure_can_write_hook without the managed check
ensure_can_write_hook_unchecked(hook_file, path, force_overwrite) ==
    [res |-> Ok, consulted |-> FALSE]

\* ensure_can_write_hook with the managed test inverted
ensure_can_write_hook_inverted(hook_file, path, force_overwrite) ==
    IF ~hook_file.exists \/ force_overwrite
    THEN [res |-> Ok, consulted |-> FALSE]
    ELSE IF ~is_managed_file(hook_file.content)
         THEN [res |-> Ok, consulted |-> TRUE]
         ELSE [res |-> RefusingToOverwriteUnmanagedHookFile(path), consulted |-> TRUE]

\* ensure_can_write_hook with the force flag left out of the test
ensure_can_write_hook_no_force(hook_file, path, force_overwrite) ==
    IF ~hook_file.exists
    THEN [res |-> Ok, consulted |-> FALSE]
    ELSE IF is_managed_file(hook_file.content)
         THEN [res |-> Ok, consulted |-> TRUE]
         ELSE [res |-> RefusingToOverwriteUnmanagedHookFile(path), consulted |-> TRUE]

\* ensure_can_write_hook: the verdict, and whether is_managed_file was called
ensure_can_write_hook(hook_file, path, force_overwrite) ==
    IF ~hook_file.exists \/ force_overwrite
    THEN [res |-> Ok, consulted |-> FALSE]
    ELSE IF is_managed_file(hook_file.content)
         THEN [res |-> Ok, consulted |-> TRUE]
         ELSE [res |-> RefusingToOverwriteUnmanagedHookFile(path), consulted |-> TRUE]

\* ensure_can_write_config that lets a managed config file be regenerated, as a hook is
ensure_can_write_config_like_hook(target, path, force_overwrite) ==
    IF ~target.exists \/ force_overwrite
    THEN [res |-> Ok, consulted |-> FALSE]
    ELSE IF is_managed_file(target.content)
         THEN [res |-> Ok, consulted |-> TRUE]
         ELSE [res |-> RefusingToOverwriteUnmanagedConfigFile(path), consulted |-> TRUE]

\* ensure_can_write_config: the verdict, and whether is_managed_file was called
ensure_can_write_config(target, path, force_overwrite) ==
    IF ~target.exists \/ force_overwrite
    THEN [res |-> Ok, consulted |-> FALSE]
    ELSE IF is_managed_file(target.content)
         THEN [res |-> RefusingToOverwriteManagedConfigFile(path), consulted |-> TRUE]
         ELSE [res |-> RefusingToOverwriteUnmanagedConfigFile(path), consulted |-> TRUE]

\* fs::write(path, content): creates the file, or replaces the bytes and keeps the mode
FsWrite(file, content) ==
    File(content, IF file.exists THEN file.mode ELSE DefaultFileMode)

\* FileSystemHookInstaller::install_hook on the hooks directory `dir`;
\* write_fails: fs::write returns an error and leaves the directory as it is
install_hook(dir, hook_name, hook_content, force_overwrite, write_fails) ==
    LET e == ensure_can_write_hook(dir[hook_name], hook_name, force_overwrite)
    IN  IF e.res # Ok
        THEN [dir |-> dir, res |-> e.res, consulted |-> e.consulted]
        ELSE IF write_fails
             THEN [dir |-> dir, res |-> FailedToWriteHook(hook_name), consulted |-> e.consulted]
             ELSE [dir |-> [dir EXCEPT ![hook_name] = FsWrite(dir[hook_name], hook_content)],
                   res |-> InstallOk(hook_name),
                   consulted |-> e.consulted]

\* FileSystemHookInstaller::install_config_file on the file at repository_root/.git-smee.toml
install_config_file(file, config_content, force_overwrite, write_fails) ==
    LET e == ensure_can_write_config(file, DEFAULT_CONFIG_FILE_NAME, force_overwrite)
    IN  IF e.res # Ok
        THEN [file |-> file, res |-> e.res, consulted |-> e.consulted]
        ELSE IF write_fails
             THEN [file |-> file, res |-> FailedToWriteConfigFile(DEFAULT_CONFIG_FILE_NAME),
                   consulted |-> e.consulted]
             ELSE [file |-> FsWrite(file, config_content),
                   res |-> InstallOk(DEFAULT_CONFIG_FILE_NAME),
                   consulted |-> e.consulted]

----------------------------------------------------------------------------
(* installer.rs and platform.rs: install_hooks_with_options *)

\* bitwise or of two file modes
RECURSIVE BitOr(_, _)
BitOr(a, b) ==
    IF a = 0 THEN b
    ELSE IF b = 0 THEN a
    ELSE (IF a % 2 = 1 \/ b % 2 = 1 THEN 1 ELSE 0) + 2 * BitOr(a \div 2, b \div 2)

\* 0o111
ExecuteBits == 73

\* Error::FailedToGetMetadata: fs::metadata failed, as it does for a path that names nothing
FailedToGetMetadata == [tag |-> "FailedToGetMetadata"]

\* Error::FailedToSetPermissions: fs::set_permissions failed
FailedToSetPermissions == [tag |-> "FailedToSetPermissions"]

\* make_executable_unix that sets the mode to 0o111 and drops the bits the file had
make_executable_unix_exact(file, cfg_unix, set_fails) ==
    IF ~cfg_unix THEN [file |-> file, res |-> Ok]
    ELSE IF ~file.exists THEN [file |-> file, res |-> FailedToGetMetadata]
    ELSE IF set_fails THEN [file |-> file, res |-> FailedToSetPermissions]
    ELSE [file |-> [file EXCEPT !.mode = ExecuteBits], res |-> Ok]

\* make_executable_unix(hook_path): the #[cfg(unix)] body reads the metadata and sets
\* the permissions to mode() | 0o111; the #[cfg(not(unix))] body is Ok(()).
\* cfg_unix: the build target is a Unix; set_fails: fs::set_permissions fails
make_executable_unix(file, cfg_unix, set_fails) ==
    IF ~cfg_unix THEN [file |-> file, res |-> Ok]
    ELSE IF ~file.exists THEN [file |-> file, res |-> FailedToGetMetadata]
    ELSE IF set_fails THEN [file |-> file, res |-> FailedToSetPermissions]
    ELSE [file |-> [file EXCEPT !.mode = BitOr(file.mode, ExecuteBits)], res |-> Ok]

\* Platform::make_executable(hook_path) with its Result
Platform_make_executable(file, pf, cfg_unix, set_fails) ==
    IF pf = "Windows" THEN [file |-> file, res |-> Ok]
    ELSE make_executable_unix(file, cfg_unix, set_fails)

\* make_executable that leaves the mode as it is on every platform
make_executable_noop(file, pf) == file

\* Platform::make_executable on an existing file, on the platform the build is for,
\* when it succeeds
make_executable(file, pf) ==
    Platform_make_executable(file, pf, pf = "Unix", FALSE).file

\* InstallEach that goes on with the remaining phases after a failure and returns
\* the first error at the end
RECURSIVE InstallEachKeepGoing(_, _, _, _, _, _, _)
InstallEachKeepGoing(dir, order, i, force_overwrite, fail_at, chmod_fail_at, pf) ==
    IF i > Len(order)
    THEN [dir |-> dir, res |-> Ok, consulted |-> {}, calls |-> <<>>]
    ELSE LET p == order[i]
             r == install_hook(dir, p, HookScript(p, pf), force_overwrite, p = fail_at)
             failed == r.res.tag # "Ok" \/ (p = chmod_fail_at /\ pf = "Unix")
             d2 == IF failed THEN r.dir
                   ELSE [r.dir EXCEPT ![p] = make_executable(r.dir[p], pf)]
             rest == InstallEachKeepGoing(d2, order, i + 1, force_overwrite, fail_at,
                                          chmod_fail_at, pf)
         IN  [dir |-> rest.dir,
              res |-> IF r.res.tag # "Ok" THEN r.res
                      ELSE IF failed THEN PlatformError(p) ELSE rest.res,
              consulted |-> rest.consulted \cup (IF r.consulted THEN {p} ELSE {}),
              calls |-> <<p>> \o rest.calls]

\* the map().collect::<Result<Vec<_>, Error>>() of install_hooks_with_options over
\* the phases in the iteration order `order`: stops at the first error.
\* fail_at: the phase whose fs::write fails; chmod_fail_at: the phase whose
\* make_executable fails (Unix only; on Windows it is a no-op);
\* calls: the hook names install_hook was called with, in order
RECURSIVE InstallEach(_, _, _, _, _, _, _)
InstallEach(dir, order, i, force_overwrite, fail_at, chmod_fail_at, pf) ==
    IF i > Len(order)
    THEN [dir |-> dir, res |-> Ok, consulted |-> {}, calls |-> <<>>]
    ELSE LET p == order[i]
             r == install_hook(dir, p, HookScript(p, pf), force_overwrite, p = fail_at)
         IN  IF r.res.tag # "Ok"
             THEN [dir |-> r.dir, res |-> r.res,
                   consulted |-> IF r.consulted THEN {p} ELSE {},
                   calls |-> <<p>>]
             ELSE IF p = chmod_fail_at /\ pf = "Unix"
                  THEN [dir |-> r.dir, res |-> PlatformError(p),
                        consulted |-> IF r.consulted THEN {p} ELSE {},
                        calls |-> <<p>>]
                  ELSE LET d2 == [r.dir EXCEPT ![p] = make_executable(r.dir[p], pf)]
                           rest == InstallEach(d2, order, i + 1, force_overwrite, fail_at,
                                               chmod_fail_at, pf)
                       IN  [rest EXCEPT !.consulted = @ \cup (IF r.consulted THEN {p} ELSE {}),
                                        !.calls = <<p>> \o @]

\* install_hooks_with_options without the test for a configuration without phases
install_hooks_with_options_unguarded(dir, order, force_overwrite, fail_at, chmod_fail_at, pf) ==
    InstallEach(dir, order, 1, force_overwrite, fail_at, chmod_fail_at, pf)

\* install_hooks_with_options(config, installer, options)
install_hooks_with_options(dir, order, force_overwrite, fail_at, chmod_fail_at, pf) ==
    IF order = <<>>
    THEN [dir |-> dir, res |-> NoHooksPresent, consulted |-> {}, calls |-> <<>>]
    ELSE InstallEach(dir, order, 1, force_overwrite, fail_at, chmod_fail_at, pf)

----------------------------------------------------------------------------
(* installer.rs: the files of a repository and the operations on them *)

InitialHookFiles ==
    {Absent, File(UserHook, ExecutableFileMode), File(StaleManagedHook, DefaultFileMode)}

InitialConfigFiles ==
    {Absent, File(UserConfig, DefaultFileMode), File(with_managed_header(UserConfig), DefaultFileMode)}

\* hook contents a caller passes to install_hook
HookContents == {UserHook, with_managed_header(UserHook)}

\* config contents a caller passes to install_config_file
ConfigContents == {with_managed_header(DefaultConfig)}

\* the iteration orders of config.hooks.keys() for the configurations over HookNames
PhaseOrders ==
    {<<>>, <<"pre-commit">>, <<"pre-push">>,
     <<"pre-commit", "pre-push">>, <<"pre-push", "pre-commit">>}

\* the failure one install_hooks_with_options call meets: none, the fs::write of
\* one phase, or the make_executable of one phase (a later failure is never reached)
Failures ==
    {[kind |-> "none", at |-> "none"]}
        \cup [kind : {"write", "chmod"}, at : HookNames]

WriteFailure(fail) == IF fail.kind = "write" THEN fail.at ELSE "none"

ChmodFailure(fail) == IF fail.kind = "chmod" THEN fail.at ELSE "none"

NoOp == [kind |-> "none", force |-> FALSE, res |-> NoResult]

NoRuns == [cfg |-> {}, n |-> 0]

InstInit ==
    /\ platform \in Platforms
    /\ hooks_dir \in [HookNames -> InitialHookFiles]
    /\ config_file \in InitialConfigFiles
    /\ orig_hooks_dir = hooks_dir
    /\ orig_config = config_file
    /\ force_used = FALSE
    /\ clean_runs = NoRuns
    /\ last_op = NoOp
    /\ cmd = <<>>
    /\ cmd_result = NoResult
    /\ config_source = <<>>
    /\ hook_arg = ""
    /\ cli_pc = "Idle"
    /\ config_result = NoResult
    /\ phase_result = NoResult
    /\ engine_calls = <<>>
    /\ run_result = NoResult
    /\ cli_command = "none"
    /\ install_calls = <<>>
    /\ file_bytes = <<>>
    /\ headed = NoResult
    /\ managed = NoResult
    /\ platform_run = NoResult
    /\ custom_path = FALSE
    /\ exit_code = -1
    /\ chmod_call = NoResult
    /\ escape_call = NoResult
    /\ smee_config = <<>>
    /\ phase = "pre-commit"
    /\ pc = "Idle"
    /\ seq_idx = 1
    /\ seq_running = FALSE
    /\ par = <<>>
    /\ results = <<>>
    /\ calls = <<>>
    /\ outcomes = <<>>
    /\ result = NoResult

\* installer.install_hook(hook_name, hook_content)
InstallHook ==
    \E hook_name \in HookNames, hook_content \in HookContents,
       force_overwrite \in BOOLEAN, write_fails \in BOOLEAN :
        LET r == install_hook(hooks_dir, hook_name, hook_content, force_overwrite, write_fails)
        IN  /\ hooks_dir' = r.dir
            /\ last_op' = [kind |-> "install_hook", force |-> force_overwrite, res |-> r.res]
            /\ force_used' = (force_used \/ force_overwrite)
            /\ clean_runs' = [cfg |-> {}, n |-> -1]
            /\ UNCHANGED <<config_file, orig_hooks_dir, orig_config>>

\* installer.install_config_file(config_content)
InstallConfigFile ==
    \E config_content \in ConfigContents, force_overwrite \in BOOLEAN, write_fails \in BOOLEAN :
        LET r == install_config_file(config_file, config_content, force_overwrite, write_fails)
        IN  /\ config_file' = r.file
            /\ last_op' = [kind |-> "install_config_file", force |-> force_overwrite, res |-> r.res]
            /\ force_used' = (force_used \/ force_overwrite)
            /\ clean_runs' = [cfg |-> {}, n |-> -1]
            /\ UNCHANGED <<hooks_dir, orig_hooks_dir, orig_config>>

\* the hooks directory held no file of a phase of `order` before the first operation
CleanFor(order) == \A i \in 1..Len(order) : ~orig_hooks_dir[order[i]].exists

\* install_hooks_with_options(config, installer, options), the phases of config
\* being iterated in the order `order`
InstallHooks ==
    \E order \in PhaseOrders, force_overwrite \in BOOLEAN, fail \in Failures :
        /\ fail.at \in Range(order) \cup {"none"}
        /\ fail.kind = "chmod" => platform = "Unix"
        /\ LET fail_at == WriteFailure(fail)
               r == install_hooks_with_options(hooks_dir, order, force_overwrite, fail_at,
                                               ChmodFailure(fail), platform)
               again == clean_runs.n = 0 \/ (clean_runs.n > 0 /\ clean_runs.cfg = Range(order))
           IN  /\ hooks_dir' = r.dir
               /\ last_op' = [kind |-> "install_hooks", force |-> force_overwrite, res |-> r.res]
               /\ force_used' = (force_used \/ force_overwrite)
               /\ clean_runs' =
                    IF again /\ ~force_overwrite /\ fail.at = "none" /\ order # <<>> /\ CleanFor(order)
                    THEN [cfg |-> Range(order),
                          n |-> IF clean_runs.n < MaxCleanRuns THEN clean_runs.n + 1 ELSE clean_runs.n]
                    ELSE [cfg |-> {}, n |-> -1]
               /\ UNCHANGED <<config_file, orig_hooks_dir, orig_config>>

InstStep ==
    \/ InstallHook
    \/ InstallConfigFile
    \/ InstallHooks

InstNext == InstStep /\ UNCHANGED <<execVars, cmdVars, cliVars, cliInstallVars, markerVars, shellVars, procVars, platformVars>>

SpecInstall == InstInit /\ [][InstNext]_vars

----------------------------------------------------------------------------
(* installer.rs: overwrite protection *)

\* the file existed before the first operation and is not managed
UserOwned(file) == file.exists /\ ~is_managed_file(file.content)

RefusalTags ==
    {"RefusingToOverwriteUnmanagedHookFile", "RefusingToOverwriteUnmanagedConfigFile",
     "RefusingToOverwriteManagedConfigFile"}

\* the (order, fail_at) inputs of install_hooks_with_options whose phases include n
InstallInputsWith(n) ==
    {x \in PhaseOrders \X (HookNames \cup {"none"}) :
        n \in Range(x[1]) /\ x[2] \in Range(x[1]) \cup {"none"}}

\* C3: as long as no operation used force, every hook file that existed unmanaged
\* before the first operation and a config file that existed before the first
\* operation are exactly as they were, and every unforced install_hook,
\* install_hooks or install_config_file targeting such a file fails and leaves it
\* as it is.
C3_UnforcedOperationsPreserveUserFiles ==
    ~force_used =>
        /\ \A n \in HookNames :
            UserOwned(orig_hooks_dir[n]) =>
                /\ hooks_dir[n] = orig_hooks_dir[n]
                /\ \A c \in HookContents, wf \in BOOLEAN :
                    LET r == install_hook(hooks_dir, n, c, FALSE, wf)
                    IN  r.res = RefusingToOverwriteUnmanagedHookFile(n) /\ r.dir = hooks_dir
                /\ \A x \in InstallInputsWith(n) :
                    LET r == install_hooks_with_options(hooks_dir, x[1], FALSE, x[2], "none",
                                                        platform)
                    IN  r.res.tag # "Ok" /\ r.dir[n] = orig_hooks_dir[n]
                /\ ~(last_op.res.tag = "Ok" /\ last_op.kind = "install_hook"
                        /\ last_op.res.path = n)
        /\ orig_config.exists =>
                /\ config_file = orig_config
                /\ \A c \in ConfigContents, wf \in BOOLEAN :
                    LET r == install_config_file(config_file, c, FALSE, wf)
                    IN  r.res.tag \in RefusalTags /\ r.file = config_file
                /\ ~(last_op.res.tag = "Ok" /\ last_op.kind = "install_config_file")

\* an unforced install_hooks regenerated pre-commit and then was refused on the
\* user's pre-push hook, with the user's config file in place
C3_Witness ==
    /\ ~force_used
    /\ last_op.kind = "install_hooks"
    /\ last_op.res = RefusingToOverwriteUnmanagedHookFile("pre-push")
    /\ UserOwned(orig_hooks_dir["pre-push"])
    /\ hooks_dir["pre-commit"] # orig_hooks_dir["pre-commit"]
    /\ UserOwned(orig_config)

C6_ForceOverwrites ==
    /\ \A n \in HookNames, c \in HookContents :
        LET e == ensure_can_write_hook(hooks_dir[n], n, TRUE)
            r == install_hook(hooks_dir, n, c, TRUE, FALSE)
        IN  /\ e = [res |-> Ok, consulted |-> FALSE]
            /\ r.res = InstallOk(n) /\ r.dir[n].content = c /\ ~r.consulted
    /\ \A c \in ConfigContents :
        LET e == ensure_can_write_config(config_file, DEFAULT_CONFIG_FILE_NAME, TRUE)
            r == install_config_file(config_file, c, TRUE, FALSE)
        IN  /\ e = [res |-> Ok, consulted |-> FALSE]
            /\ r.res = InstallOk(DEFAULT_CONFIG_FILE_NAME) /\ r.file.content = c /\ ~r.consulted
    /\ (last_op.force /\ last_op.kind \in {"install_hook", "install_config_file"}) =>
        last_op.res.tag \in {"Ok", "FailedToWriteHook", "FailedToWriteConfigFile"}

\* a forced install_hook replaced the user's pre-push hook
C6_Witness ==
    /\ last_op = [kind |-> "install_hook", force |-> TRUE, res |-> InstallOk("pre-push")]
    /\ UserOwned(orig_hooks_dir["pre-push"])
    /\ hooks_dir["pre-push"].content = with_managed_header(UserHook)

\* C7: when every operation so far was install_hooks of one configuration, without
\* force or write failure, on a hooks directory that held no file of a configured
\* phase at first, the last of them succeeded and every configured phase holds the
\* rendered script, which is a managed file.
C7_InstallHooksIdempotent ==
    clean_runs.n >= 1 =>
        /\ last_op.res = Ok
        /\ \A p \in clean_runs.cfg :
            /\ hooks_dir[p].exists
            /\ hooks_dir[p].content = HookScript(p, platform)
            /\ is_managed_file(hooks_dir[p].content)

\* the third install_hooks in a row of a two-phase configuration succeeded on Unix
C7_Witness ==
    /\ clean_runs = [cfg |-> HookNames, n |-> MaxCleanRuns]
    /\ platform = "Unix"
    /\ last_op = [kind |-> "install_hooks", force |-> FALSE, res |-> Ok]

\* C21: install_hooks on a configuration without phases returns NoHooksPresent,
\* calls install_hook for no phase and leaves the hooks directory as it is, with or
\* without force; no other operation returns NoHooksPresent.
C21_EmptyConfigInstallsNothing ==
    /\ \A f \in BOOLEAN, fail \in Failures :
          LET r == install_hooks_with_options(hooks_dir, <<>>, f, WriteFailure(fail),
                                              ChmodFailure(fail), platform)
          IN  /\ r.res = NoHooksPresent
              /\ r.calls = <<>>
              /\ r.consulted = {}
              /\ r.dir = hooks_dir
    /\ \A order \in PhaseOrders \ {<<>>}, f \in BOOLEAN :
          install_hooks_with_options(hooks_dir, order, f, "none", "none", platform).res
              # NoHooksPresent
    /\ last_op.res = NoHooksPresent => last_op.kind = "install_hooks"

\* the first operation was install_hooks of a configuration without phases, on a
\* directory holding a user's pre-commit hook and no pre-push hook
C21_Witness ==
    /\ last_op = [kind |-> "install_hooks", force |-> FALSE, res |-> NoHooksPresent]
    /\ hooks_dir = orig_hooks_dir
    /\ hooks_dir["pre-commit"] = File(UserHook, ExecutableFileMode)
    /\ ~hooks_dir["pre-push"].exists

\* the result install_hook alone gives for phase p on directory dir: the refusal
\* or the write failure, Ok otherwise
FirstFailure(dir, p, f, fail) ==
    IF dir[p].exists /\ ~f /\ ~is_managed_file(dir[p].content)
    THEN RefusingToOverwriteUnmanagedHookFile(p)
    ELSE IF fail = [kind |-> "write", at |-> p] THEN FailedToWriteHook(p)
    ELSE IF fail = [kind |-> "chmod", at |-> p] /\ platform = "Unix" THEN PlatformError(p)
    ELSE Ok

\* C22: in install_hooks over two phases, when the first phase fails the second
\* is neither passed to install_hook nor changed and the error is the first
\* phase's; when the first phase succeeds and the second fails, the error is the
\* second phase's and the first phase's file stays written with the new script.
\* A refused or failed write leaves the failing phase's file as it was.
C22_FirstFailureAborts ==
    \A order \in {o \in PhaseOrders : Len(o) = 2}, f \in BOOLEAN, fail \in Failures :
        LET r == install_hooks_with_options(hooks_dir, order, f, WriteFailure(fail),
                                            ChmodFailure(fail), platform)
            e1 == FirstFailure(hooks_dir, order[1], f, fail)
            e2 == FirstFailure(hooks_dir, order[2], f, fail)
        IN  /\ e1 # Ok =>
                /\ r.res = e1
                /\ r.calls = <<order[1]>>
                /\ r.dir[order[2]] = hooks_dir[order[2]]
                /\ e1.tag # "PlatformError" => r.dir = hooks_dir
            /\ (e1 = Ok /\ e2 # Ok) =>
                /\ r.res = e2
                /\ r.calls = order
                /\ r.dir[order[1]].exists
                /\ r.dir[order[1]].content = HookScript(order[1], platform)
                /\ e2.tag # "PlatformError" => r.dir[order[2]] = hooks_dir[order[2]]
            /\ (e1 = Ok /\ e2 = Ok) => (r.res = Ok /\ r.calls = order)

\* install_hooks created the pre-commit script and then failed to write pre-push,
\* which is still absent
C22_Witness ==
    /\ last_op = [kind |-> "install_hooks", force |-> FALSE, res |-> FailedToWriteHook("pre-push")]
    /\ ~orig_hooks_dir["pre-commit"].exists
    /\ hooks_dir["pre-commit"].exists
    /\ hooks_dir["pre-commit"].content = HookScript("pre-commit", platform)
    /\ ~hooks_dir["pre-push"].exists

\* the lines of a text, split at "\n"
RECURSIVE LinesFrom(_, _)
LinesFrom(s, from) ==
    LET nl == NextNewline(Newlines(s), from)
    IN  IF nl = 0 THEN <<SubSeq(s, from, Len(s))>>
        ELSE <<SubSeq(s, from, nl - 1)>> \o LinesFrom(s, nl + 1)

\* the script begins with the marker comment, after the shebang line on Unix
BeginsWithMarker(script, pf) ==
    LET lines == LinesFrom(script, 1)
    IN  IF pf = "Windows"
        THEN StripCr(lines[1]) = <<"R", "E", "M", " ">> \o MANAGED_FILE_MARKER
        ELSE /\ Len(lines) >= 2
             /\ StartsWith(lines[1], <<"#", "!">>)
             /\ lines[2] = <<"#", " ">> \o MANAGED_FILE_MARKER

\* every script install_hooks_with_options renders begins with the marker comment
\* and is a managed file
RenderedScriptsAreManaged ==
    \A pf \in Platforms, p \in HookNames :
        /\ BeginsWithMarker(HookScript(p, pf), pf)
        /\ is_managed_file(HookScript(p, pf))

----------------------------------------------------------------------------
(* executor.rs: execute_command on one command string *)

\* the words command strings are made of: two inline assignments, the second with
\* a path separator in its value, an executable name and a flag
TokInlineEnv == <<"K", "=", "v">>

TokInlineEnvPath == <<"K", "=", "a", "/", "b">>

TokExecutable == <<"x">>

TokFlag == <<"-", "s">>

CommandTokens == {TokInlineEnv, TokInlineEnvPath, TokExecutable, TokFlag}

RECURSIVE JoinFrom(_, _)
JoinFrom(tokens, i) ==
    IF i > Len(tokens) THEN <<>>
    ELSE IF i = Len(tokens) THEN tokens[i]
    ELSE tokens[i] \o <<" ">> \o JoinFrom(tokens, i + 1)

\* the characters of shell variable names used by Commands
NameChars == {"K", "_"}

\* position of the "=" that ends a leading variable name of token, 0 when token
\* is not a shell assignment word NAME=value
AssignmentSplit(token) ==
    LET c == {i \in 2..Len(token) :
                token[i] = "=" /\ \A j \in 1..(i - 1) : token[j] \in NameChars}
    IN  IF c = {} THEN 0 ELSE CHOOSE i \in c : \A j \in c : i <= j

AssignedValue(token) == SubSeq(token, AssignmentSplit(token) + 1, Len(token))

\* position in tokens of the word the shell runs: the first word that is not an
\* assignment, 0 when every word is an assignment
CommandWordIndex(tokens) ==
    LET c == {i \in 1..Len(tokens) : AssignmentSplit(tokens[i]) = 0}
    IN  IF c = {} THEN 0 ELSE CHOOSE i \in c : \A j \in c : i <= j

\* commands for the platform shell: two builtins, and a name that, alone, after an
\* assignment or before a flag, is looked up as a program
CmdEchoOk == <<"e", "c", "h", "o", " ", "o", "k">>

CmdExit1 == <<"e", "x", "i", "t", " ", "1">>

ShellCommands ==
    {CmdEchoOk, CmdExit1, TokExecutable, TokInlineEnv \o <<" ">> \o TokExecutable,
     TokExecutable \o <<" ">> \o TokFlag}

\* the command strings of up to MaxTokens words, and a blank one
Commands ==
    {CmdBlank} \cup
    UNION {{JoinFrom(ts, 1) : ts \in [1..n -> CommandTokens]} : n \in 1..MaxTokens}

\* execute_command(command, runner), runner.run returning `outcome` if it is called
execute_command(command, outcome, pf) ==
    IF TrimIsEmpty(command) THEN NoCommandDefined ELSE ClassifyOutcome(command, outcome, pf)

\* the exit status of sh for a command that is not found
ShNotFoundStatus == 127

\* the exit statuses of the platform shell for a command that is not found
NotFoundStatuses(pf) == IF pf = "Unix" THEN {ShNotFoundStatus} ELSE {1, 9009}

\* what one run meets outside the program: whether the shell can be started and
\* the error if not, whether the program the command names exists, the status the
\* shell gives when it does not, and what the program does when it does
RunEnvironments(pf) ==
    [shell_starts : BOOLEAN, spawn_error : IoErrorKinds, found : BOOLEAN,
     not_found_status : NotFoundStatuses(pf),
     program : [kind : {"Exit"}, code : ExitCodes] \cup {[kind |-> "NoCode"]}]

\* the value of the argument of `exit`
ExitArgument(tokens, k) ==
    IF k = Len(tokens) THEN 0
    ELSE CASE tokens[k + 1] = <<"1">> -> 1
           [] tokens[k + 1] = <<"2">> -> 2
           [] OTHER -> 0

\* status().map(|status| status.code()) of the started shell, `sh -c <command>`
\* or `cmd.exe /C <command>`: the shell looks the command word up itself
ShellStatus(command, env, pf) ==
    LET tokens == SplitWhitespace(command)
        k == IF pf = "Unix" THEN CommandWordIndex(tokens) ELSE 1
    IN  IF k = 0 THEN [kind |-> "Exit", code |-> 0]
        ELSE IF tokens[k] = <<"e", "c", "h", "o">> THEN [kind |-> "Exit", code |-> 0]
        ELSE IF tokens[k] = <<"e", "x", "i", "t">>
             THEN [kind |-> "Exit", code |-> ExitArgument(tokens, k)]
        ELSE IF ~env.found THEN [kind |-> "Exit", code |-> env.not_found_status]
        ELSE env.program

\* PlatformCommandRunner::run with the program named by the command started
\* directly, without a shell
PlatformCommandRunner_run_direct(command, env, pf) ==
    IF ~env.shell_starts \/ ~env.found
    THEN [kind |-> "SpawnError", source |-> env.spawn_error]
    ELSE ShellStatus(command, env, pf)

\* PlatformCommandRunner::run(command): create_command().arg(command).status()
PlatformCommandRunner_run(command, env, pf) ==
    IF ~env.shell_starts
    THEN [kind |-> "SpawnError", source |-> env.spawn_error]
    ELSE ShellStatus(command, env, pf)

\* the state before execute_command is called with one of `commands`
CmdInitWith(commands) ==
    /\ cmd \in commands
    /\ cmd_result = NoResult
    /\ config_source = <<>>
    /\ hook_arg = ""
    /\ cli_pc = "Idle"
    /\ config_result = NoResult
    /\ phase_result = NoResult
    /\ engine_calls = <<>>
    /\ run_result = NoResult
    /\ cli_command = "none"
    /\ install_calls = <<>>
    /\ file_bytes = <<>>
    /\ headed = NoResult
    /\ managed = NoResult
    /\ platform_run = NoResult
    /\ custom_path = FALSE
    /\ exit_code = -1
    /\ chmod_call = NoResult
    /\ escape_call = NoResult
    /\ platform \in {"Unix", "Windows"}
    /\ smee_config = <<>>
    /\ phase = "pre-commit"
    /\ pc = "Idle"
    /\ seq_idx = 1
    /\ seq_running = FALSE
    /\ par = <<>>
    /\ results = <<>>
    /\ calls = <<>>
    /\ outcomes = <<>>
    /\ result = NoResult
    /\ hooks_dir = <<>>
    /\ config_file = <<>>
    /\ orig_hooks_dir = <<>>
    /\ orig_config = <<>>
    /\ force_used = FALSE
    /\ clean_runs = <<>>
    /\ last_op = <<>>

CmdInit == CmdInitWith(Commands \cup ShellCommands)

ExecuteCommand ==
    \E outcome \in RunnerOutcomes :
        /\ cmd_result' = execute_command(cmd, outcome, platform)
        /\ UNCHANGED cmd

\* execute_command(command, &PlatformCommandRunner { platform }) in an environment
RunOnPlatform ==
    /\ platform_run = NoResult
    /\ \E env \in RunEnvironments(platform) :
        platform_run' =
            [tag |-> "Done", shell_started |-> env.shell_starts, found |-> env.found,
             result |-> IF TrimIsEmpty(cmd) THEN NoCommandDefined
                        ELSE ClassifyOutcome(cmd, PlatformCommandRunner_run(cmd, env, platform),
                                             platform)]
    /\ UNCHANGED <<cmd, cmd_result>>

CmdNext ==
    \/ ExecuteCommand /\ UNCHANGED <<execVars, instVars, cliVars, cliInstallVars, markerVars, shellVars, procVars, platformVars>>
    \/ RunOnPlatform /\ UNCHANGED <<execVars, instVars, cliVars, cliInstallVars, markerVars, procVars, platformVars>>

SpecRedact == CmdInit /\ [][CmdNext]_vars

----------------------------------------------------------------------------
(* executor.rs: what a spawn failure shows of the command *)

\* `secret` can be read off `shown`, and not because the executable name or the
\* fixed marker happens to contain it
Exposes(shown, secret, executable) ==
    /\ secret # <<>>
    /\ IsSubstring(secret, shown)
    /\ ~IsSubstring(secret, executable \o ArgsRedacted)

\* C8: the redacted command of a CommandSpawnFailed error shows neither the value
\* of an inline KEY=VALUE assignment that precedes the executable nor an argument
\* that follows it, and is not the original command when the command has such
\* parts.
C8_RedactionHidesValuesAndArguments ==
    cmd_result.tag = "CommandSpawnFailed" =>
        LET tokens == SplitWhitespace(cmd)
            k == CommandWordIndex(tokens)
            executable == IF k = 0 THEN <<>> ELSE tokens[k]
            envs == IF k = 0 THEN 1..Len(tokens) ELSE 1..(k - 1)
            args == IF k = 0 THEN {} ELSE (k + 1)..Len(tokens)
        IN  /\ \A i \in envs :
                ~Exposes(cmd_result.command, AssignedValue(tokens[i]), executable)
            /\ \A i \in args : ~Exposes(cmd_result.command, tokens[i], executable)
            /\ (envs # {} \/ args # {}) => cmd_result.command # cmd

\* the command is a single word that names a program (no builtin of the shell)
BareExecutable(command) ==
    /\ Len(SplitWhitespace(command)) = 1
    /\ SplitWhitespace(command)[1] = command
    /\ AssignmentSplit(command) = 0
    /\ command \notin {<<"e", "c", "h", "o">>, <<"e", "x", "i", "t">>}

\* C30 as stated: a command that is the name of a program that does not exist
\* ends in CommandSpawnFailed showing that name; `echo ok` run by a shell that
\* started ends in success and `exit 1` in ExecutionFailed(1).
C30_MissingExecutableIsSpawnFailure ==
    platform_run.tag = "Done" =>
        /\ (BareExecutable(cmd) /\ ~platform_run.found) =>
              /\ platform_run.result.tag = "CommandSpawnFailed"
              /\ platform_run.result.command = cmd
        /\ (cmd = CmdEchoOk /\ platform_run.shell_started) => platform_run.result = Ok
        /\ (cmd = CmdExit1 /\ platform_run.shell_started) =>
              platform_run.result = ExecutionFailed(1)

\* C30, amended: the command ends in CommandSpawnFailed exactly when the shell
\* could not be started, and then a command that is the name of a program alone
\* is shown as that name; a program that does not exist, looked up by a shell
\* that started, ends in ExecutionFailed with the not-found status of the shell
\* (127 for sh); `echo ok` run by a shell that started ends in success and
\* `exit 1` in ExecutionFailed(1).
C30_SpawnFailureIsOfTheShell ==
    (platform_run.tag = "Done" /\ ~TrimIsEmpty(cmd)) =>
        /\ platform_run.result.tag = "CommandSpawnFailed" <=> ~platform_run.shell_started
        /\ (BareExecutable(cmd) /\ ~platform_run.shell_started) =>
              /\ platform_run.result.command = cmd
              /\ platform_run.result.shell = shell_display(platform)
        /\ (BareExecutable(cmd) /\ platform_run.shell_started /\ ~platform_run.found) =>
              /\ platform_run.result.tag = "ExecutionFailed"
              /\ platform_run.result.code \in NotFoundStatuses(platform)
              /\ platform = "Unix" => platform_run.result = ExecutionFailed(ShNotFoundStatus)
        /\ (cmd = CmdEchoOk /\ platform_run.shell_started) => platform_run.result = Ok
        /\ (cmd = CmdExit1 /\ platform_run.shell_started) =>
              platform_run.result = ExecutionFailed(1)

\* sh started and did not find the program x: the command failed with status 127
C30_Witness ==
    /\ cmd = TokExecutable /\ platform = "Unix"
    /\ platform_run.tag = "Done"
    /\ platform_run.shell_started /\ ~platform_run.found
    /\ platform_run.result = ExecutionFailed(ShNotFoundStatus)

\* the shell could not be started for the command x
C30_WitnessShellMissing ==
    /\ cmd = TokExecutable
    /\ platform_run.tag = "Done" /\ ~platform_run.shell_started
    /\ platform_run.result = CommandSpawnFailed(TokExecutable, "sh -c", "NotFound")

----------------------------------------------------------------------------
(* config.rs: the phase vocabulary *)

\* the variants of enum LifeCyclePhase
LifeCyclePhase ==
    {"ApplypatchMsg", "PreApplypatch", "PostApplypatch", "PreCommit", "PrepareCommitMsg",
     "CommitMsg", "PostCommit", "PreMergeCommit", "PreRebase", "PostCheckout", "PostMerge",
     "PostRewrite", "PrePush", "ReferenceTransaction", "PushToCheckout", "PreAutoGc",
     "PostUpdate", "FsmonitorWatchman", "PostIndexChange"}

\* the arms of the match in LifeCyclePhase::from_str, in source order
FromStrArms ==
    <<<<"applypatch-msg", "ApplypatchMsg">>, <<"pre-applypatch", "PreApplypatch">>,
      <<"post-applypatch", "PostApplypatch">>, <<"pre-commit", "PreCommit">>,
      <<"prepare-commit-msg", "PrepareCommitMsg">>, <<"commit-msg", "CommitMsg">>,
      <<"post-commit", "PostCommit">>, <<"pre-merge-commit", "PreMergeCommit">>,
      <<"pre-rebase", "PreRebase">>, <<"post-checkout", "PostCheckout">>,
      <<"post-merge", "PostMerge">>, <<"post-rewrite", "PostRewrite">>,
      <<"pre-push", "PrePush">>, <<"reference-transaction", "ReferenceTransaction">>,
      <<"push-to-checkout", "PushToCheckout">>, <<"pre-auto-gc", "PreAutoGc">>,
      <<"post-update", "PostUpdate">>, <<"fsmonitor-watchman", "FsmonitorWatchman">>,
      <<"post-index-change", "PostIndexChange">>>>

\* the arms of the match in Display::fmt for LifeCyclePhase, in source order
DisplayArms ==
    <<<<"ApplypatchMsg", "applypatch-msg">>, <<"PreApplypatch", "pre-applypatch">>,
      <<"PostApplypatch", "post-applypatch">>, <<"PreCommit", "pre-commit">>,
      <<"PrepareCommitMsg", "prepare-commit-msg">>, <<"CommitMsg", "commit-msg">>,
      <<"PostCommit", "post-commit">>, <<"PreMergeCommit", "pre-merge-commit">>,
      <<"PreRebase", "pre-rebase">>, <<"PostCheckout", "post-checkout">>,
      <<"PostMerge", "post-merge">>, <<"PostRewrite", "post-rewrite">>,
      <<"PrePush", "pre-push">>, <<"ReferenceTransaction", "reference-transaction">>,
      <<"PushToCheckout", "push-to-checkout">>, <<"PreAutoGc", "pre-auto-gc">>,
      <<"PostUpdate", "post-update">>, <<"FsmonitorWatchman", "fsmonitor-watchman">>,
      <<"PostIndexChange", "post-index-change">>>>

UnknownLifeCyclePhase(s) == [tag |-> "UnknownLifeCyclePhase", name |-> s]

PhaseOk(p) == [tag |-> "Ok", phase |-> p]

\* a match: the first arm whose pattern equals the scrutinee, 0 when none does
FirstArm(arms, x) ==
    LET c == {i \in 1..Len(arms) : arms[i][1] = x}
    IN  IF c = {} THEN 0 ELSE CHOOSE i \in c : \A j \in c : i <= j

\* from_str with the catch-all arm answering PreCommit
from_str_lenient(s) ==
    LET k == FirstArm(FromStrArms, s)
    IN  IF k = 0 THEN PhaseOk("PreCommit") ELSE PhaseOk(FromStrArms[k][2])

\* LifeCyclePhase::from_str
from_str(s) ==
    LET k == FirstArm(FromStrArms, s)
    IN  IF k = 0 THEN UnknownLifeCyclePhase(s) ELSE PhaseOk(FromStrArms[k][2])

\* Display for LifeCyclePhase (the match is exhaustive over the variants)
to_string(p) == DisplayArms[FirstArm(DisplayArms, p)][2]

\* the names #[serde(rename_all = "kebab-case")] gives the variants as map keys
SerdeNames ==
    [p \in LifeCyclePhase |->
        CASE p = "ApplypatchMsg" -> "applypatch-msg"
          [] p = "PreApplypatch" -> "pre-applypatch"
          [] p = "PostApplypatch" -> "post-applypatch"
          [] p = "PreCommit" -> "pre-commit"
          [] p = "PrepareCommitMsg" -> "prepare-commit-msg"
          [] p = "CommitMsg" -> "commit-msg"
          [] p = "PostCommit" -> "post-commit"
          [] p = "PreMergeCommit" -> "pre-merge-commit"
          [] p = "PreRebase" -> "pre-rebase"
          [] p = "PostCheckout" -> "post-checkout"
          [] p = "PostMerge" -> "post-merge"
          [] p = "PostRewrite" -> "post-rewrite"
          [] p = "PrePush" -> "pre-push"
          [] p = "ReferenceTransaction" -> "reference-transaction"
          [] p = "PushToCheckout" -> "push-to-checkout"
          [] p = "PreAutoGc" -> "pre-auto-gc"
          [] p = "PostUpdate" -> "post-update"
          [] p = "FsmonitorWatchman" -> "fsmonitor-watchman"
          [] p = "PostIndexChange" -> "post-index-change"]

----------------------------------------------------------------------------
(* config.rs: validation and loading *)

EmptyHookEntries(hook_name) == [tag |-> "EmptyHookEntries", hook_name |-> hook_name]

EmptyCommand(hook_name, entry_index) ==
    [tag |-> "EmptyCommand", hook_name |-> hook_name, entry_index |-> entry_index]

MissingFile == [tag |-> "MissingFile"]

CanNotReadExtension == [tag |-> "CanNotReadExtension"]

NotATomlFileExtension == [tag |-> "NotATomlFileExtension"]

ReadError == [tag |-> "ReadError"]

ParseError == [tag |-> "ParseError"]

ValidationError(e) == [tag |-> "ValidationError", error |-> e]

ConfigOk(hooks) == [tag |-> "Ok", config |-> hooks]

\* the iteration orders of a HashMap with the keys S
IterationOrders(S) ==
    {f \in [1..Cardinality(S) -> S] : \A i, j \in 1..Cardinality(S) : f[i] = f[j] => i = j}

\* 0-based position of the first entry of hooks whose trimmed command is empty, -1 if none
FirstEmptyCommand(hooks) ==
    LET c == {index \in 0..(Len(hooks) - 1) : TrimIsEmpty(hooks[index + 1].command)}
    IN  IF c = {} THEN -1 ELSE CHOOSE i \in c : \A j \in c : i <= j

\* the loop of validate that reports entry_index as the 0-based index
RECURSIVE ValidateFromZeroBased(_, _, _)
ValidateFromZeroBased(hooks, order, i) ==
    IF i > Len(order) THEN Ok
    ELSE LET phase_ == order[i]
             index == FirstEmptyCommand(hooks[phase_])
         IN  IF hooks[phase_] = <<>> THEN EmptyHookEntries(to_string(phase_))
             ELSE IF index # -1 THEN EmptyCommand(to_string(phase_), index)
             ELSE ValidateFromZeroBased(hooks, order, i + 1)

\* the loop of validate that passes over a phase without entries
RECURSIVE ValidateFromSkipEmpty(_, _, _)
ValidateFromSkipEmpty(hooks, order, i) ==
    IF i > Len(order) THEN Ok
    ELSE LET phase_ == order[i]
             index == FirstEmptyCommand(hooks[phase_])
         IN  IF index # -1 THEN EmptyCommand(to_string(phase_), index + 1)
             ELSE ValidateFromSkipEmpty(hooks, order, i + 1)

\* the loop of validate that passes over empty commands
RECURSIVE ValidateFromSkipCommands(_, _, _)
ValidateFromSkipCommands(hooks, order, i) ==
    IF i > Len(order) THEN Ok
    ELSE IF hooks[order[i]] = <<>> THEN EmptyHookEntries(to_string(order[i]))
    ELSE ValidateFromSkipCommands(hooks, order, i + 1)

\* SmeeConfig::validate: `for (phase, hooks) in &self.hooks` from position i of the
\* iteration order, returning at the first violation
RECURSIVE ValidateFrom(_, _, _)
ValidateFrom(hooks, order, i) ==
    IF i > Len(order) THEN Ok
    ELSE LET phase_ == order[i]
             index == FirstEmptyCommand(hooks[phase_])
         IN  IF hooks[phase_] = <<>> THEN EmptyHookEntries(to_string(phase_))
             ELSE IF index # -1 THEN EmptyCommand(to_string(phase_), index + 1)
             ELSE ValidateFrom(hooks, order, i + 1)

validate(hooks, order) == ValidateFrom(hooks, order, 1)

\* toml::from_slice into SmeeConfig: the bytes must be TOML, and every key of the
\* table must be the serde name of a variant
Deserialize(content) ==
    IF ~content.is_toml THEN ParseError
    ELSE IF \E k \in DOMAIN content.table : \A p \in LifeCyclePhase : SerdeNames[p] # k
         THEN ParseError
         ELSE ConfigOk([p \in {q \in LifeCyclePhase : SerdeNames[q] \in DOMAIN content.table} |->
                            content.table[SerdeNames[p]]])

\* from_toml without validation
from_toml_unvalidated(src, order) ==
    IF src.kind # "file" THEN MissingFile
    ELSE IF src.ext = "none" THEN CanNotReadExtension
    ELSE IF src.ext # "toml" THEN NotATomlFileExtension
    ELSE IF ~src.readable THEN ReadError
    ELSE Deserialize(src.content)

\* SmeeConfig::from_toml(path); order: the iteration order of the parsed map
from_toml(src, order) ==
    IF src.kind # "file" THEN MissingFile
    ELSE IF src.ext = "none" THEN CanNotReadExtension
    ELSE IF src.ext # "toml" THEN NotATomlFileExtension
    ELSE IF ~src.readable THEN ReadError
    ELSE LET d == Deserialize(src.content)
         IN  IF d.tag # "Ok" THEN d
             ELSE LET v == validate(d.config, order)
                  IN  IF v # Ok THEN ValidationError(v) ELSE d

----------------------------------------------------------------------------
(* main.rs: `git-smee run <hook>` on a configuration path *)

\* a hook entry as a TOML array-of-tables element gives it
ConfigEntries == {e \in HookDefinition : ~e.parallel_execution_allowed}

GoodEntry == [command |-> CmdDeploy, parallel_execution_allowed |-> FALSE]

EntryLists == UNION {[1..n -> ConfigEntries] : n \in 0..MaxEntries}

\* keys of configuration files: two client-side phases, a server-side hook of
\* Git, and a name that is no hook of Git
ConfigKeys == {"pre-commit", "pre-push", "pre-receive", "not-a-hook"}

\* the tables of configuration files: any entry lists for the client-side keys,
\* one good entry for the others
ConfigTables ==
    {t \in UNION {[K -> EntryLists] : K \in SUBSET ConfigKeys} :
        \A k \in DOMAIN t \ {"pre-commit", "pre-push"} : t[k] = <<GoodEntry>>}

\* bytes that are no TOML document
Garbage == [is_toml |-> FALSE, table |-> [k \in {} |-> <<>>]]

Toml(t) == [is_toml |-> TRUE, table |-> t]

TomlFile(content) == [kind |-> "file", ext |-> "toml", readable |-> TRUE, content |-> content]

ConfigSources ==
    {[kind |-> "missing"], [kind |-> "directory", ext |-> "toml"],
     [kind |-> "file", ext |-> "none", readable |-> TRUE, content |-> Garbage],
     [kind |-> "file", ext |-> "yaml", readable |-> TRUE, content |-> Garbage],
     [kind |-> "file", ext |-> "toml", readable |-> FALSE, content |-> Garbage],
     TomlFile(Garbage)}
        \cup {TomlFile(Toml(t)) : t \in ConfigTables}

\* hook names on the command line: every name from_str knows, the server-side
\* hooks of Git, and names that are no hooks
ServerSideHookNames == {"pre-receive", "update", "proc-receive", "post-receive"}

HookArgs ==
    {FromStrArms[i][1] : i \in 1..Len(FromStrArms)}
        \cup ServerSideHookNames \cup {"not-a-hook", "PreCommit", "Pre-Commit", ""}

\* the subcommands of the command line
CliCommands == {"run", "install", "init"}

\* `git-smee run <hook>` on Unix, `git-smee install` on either platform in a
\* repository whose hooks directory holds none, a user's or an earlier managed
\* script for each hook name, or `git-smee init` with the default or a custom
\* configuration path that names no file, a user's file or a managed file
CliInit ==
    /\ cli_command \in CliCommands
    /\ config_source \in (IF cli_command = "init" THEN {[kind |-> "missing"]} ELSE ConfigSources)
    /\ hook_arg \in (IF cli_command = "run" THEN HookArgs ELSE {""})
    /\ platform \in (IF cli_command = "install" THEN Platforms ELSE {"Unix"})
    /\ hooks_dir \in (IF cli_command = "install"
                      THEN [HookNames -> InitialHookFiles]
                      ELSE {[n \in HookNames |-> Absent]})
    /\ orig_hooks_dir = hooks_dir
    /\ cli_pc = "Start"
    /\ config_result = NoResult
    /\ phase_result = NoResult
    /\ engine_calls = <<>>
    /\ run_result = NoResult
    /\ install_calls = <<>>
    /\ file_bytes = <<>>
    /\ headed = NoResult
    /\ managed = NoResult
    /\ platform_run = NoResult
    /\ custom_path \in (IF cli_command = "init" THEN BOOLEAN ELSE {FALSE})
    /\ exit_code = -1
    /\ chmod_call = NoResult
    /\ escape_call = NoResult
    /\ cmd = <<>>
    /\ cmd_result = NoResult
    /\ smee_config = <<>>
    /\ phase = "pre-commit"
    /\ pc = "Idle"
    /\ seq_idx = 1
    /\ seq_running = FALSE
    /\ par = <<>>
    /\ results = <<>>
    /\ calls = <<>>
    /\ outcomes = <<>>
    /\ result = NoResult
    /\ config_file \in (IF cli_command = "init" THEN InitialConfigFiles ELSE {Absent})
    /\ orig_config = config_file
    /\ force_used = FALSE
    /\ clean_runs = NoRuns
    /\ last_op = NoOp

\* the iteration orders the map parsed from src can have
OrdersOf(src) ==
    IF src.kind = "file" /\ Deserialize(src.content).tag = "Ok"
    THEN IterationOrders(DOMAIN Deserialize(src.content).config)
    ELSE {<<>>}

\* run, both arms: read_config_file(&config_path)?
ReadConfigFile ==
    /\ cli_pc = "Start"
    /\ \E order \in OrdersOf(config_source) :
        LET r == from_toml(config_source, order)
        IN  /\ config_result' = r
            /\ IF r.tag = "Ok"
               THEN cli_pc' = "ConfigRead" /\ UNCHANGED run_result
               ELSE cli_pc' = "Failed" /\ run_result' = r
    /\ UNCHANGED <<config_source, hook_arg, phase_result, engine_calls>>

\* ParseHook with the engine asked before the name is parsed
ParseHookAfterEngine ==
    /\ cli_pc = "ConfigRead"
    /\ phase_result' = from_str(hook_arg)
    /\ engine_calls' = Append(engine_calls, hook_arg)
    /\ cli_pc' = "Failed"
    /\ run_result' = [tag |-> "NoHooksConfigured", phase |-> hook_arg]
    /\ UNCHANGED <<config_source, hook_arg, config_result>>

\* run: LifeCyclePhase::from_str(&hook)?
ParseHook ==
    /\ cli_pc = "ConfigRead"
    /\ LET r == from_str(hook_arg)
       IN  /\ phase_result' = r
           /\ IF r.tag = "Ok"
              THEN cli_pc' = "PhaseParsed" /\ UNCHANGED run_result
              ELSE cli_pc' = "Failed" /\ run_result' = r
    /\ UNCHANGED <<config_source, hook_arg, config_result, engine_calls>>

\* the loaded configuration as the engine sees it, keyed by the text of each phase
EngineConfig(hooks) ==
    [n \in {to_string(p) : p \in DOMAIN hooks} |->
        hooks[CHOOSE p \in DOMAIN hooks : to_string(p) = n]]

\* run: executor::execute_hook_with_args(&config, phase, &hook_args)?: the phase
\* lookup of the engine, which hands the entries of the phase to the phase run
ExecuteHookWithArgs ==
    /\ cli_pc = "PhaseParsed"
    /\ engine_calls' = Append(engine_calls, phase_result.phase)
    /\ smee_config' = EngineConfig(config_result.config)
    /\ phase' = to_string(phase_result.phase)
    /\ IF phase_result.phase \in DOMAIN config_result.config
       THEN cli_pc' = "Executing" /\ UNCHANGED run_result
       ELSE /\ cli_pc' = "Failed"
            /\ run_result' = NoHooksConfigured(to_string(phase_result.phase))
    /\ UNCHANGED <<config_source, hook_arg, config_result, phase_result>>
    /\ UNCHANGED <<platform, pc, seq_idx, seq_running, par, results, calls, outcomes, result>>

\* run: the `?` after execute_hook_with_args: the result of the phase run is the
\* result of the command
RunReturns ==
    /\ cli_pc = "Executing"
    /\ pc \in {"Completed", "Failed"}
    /\ run_result' = result
    /\ cli_pc' = IF result = Ok THEN "Done" ELSE "Failed"
    /\ UNCHANGED <<config_source, hook_arg, config_result, phase_result, engine_calls>>

\* the install arm: installer::install_hooks_with_options(&config, &installer,
\* &hook_script_options)?, the installer being built with the --force flag
InstallHooksCommand ==
    /\ cli_pc = "ConfigRead"
    /\ \E order \in IterationOrders(DOMAIN config_result.config),
          force_overwrite \in BOOLEAN, fail \in Failures :
        LET names == [i \in 1..Len(order) |-> to_string(order[i])]
            r == install_hooks_with_options(hooks_dir, names, force_overwrite,
                                            WriteFailure(fail), ChmodFailure(fail), platform)
        IN  /\ fail.at \in Range(names) \cup {"none"}
            /\ fail.kind = "chmod" => platform = "Unix"
            /\ hooks_dir' = r.dir
            /\ install_calls' = r.calls
            /\ last_op' = [kind |-> "install_hooks", force |-> force_overwrite, res |-> r.res]
            /\ force_used' = force_overwrite
            /\ run_result' = r.res
            /\ cli_pc' = IF r.res = Ok THEN "Installed" ELSE "Failed"
    /\ UNCHANGED <<config_source, hook_arg, config_result, phase_result, engine_calls>>
    /\ UNCHANGED <<cli_command, config_file, orig_hooks_dir, orig_config, clean_runs, procVars>>

\* std::io::Error of kind AlreadyExists
AlreadyExists == [tag |-> "AlreadyExists"]

\* std::io::Error of create_dir_all or fs::write
IoError == [tag |-> "IoError"]

\* write_config_file without the test for an existing file
write_config_file_unchecked(file, content, force, write_fails) ==
    IF write_fails THEN [file |-> file, res |-> IoError]
    ELSE [file |-> FsWrite(file, content), res |-> Ok]

\* write_config_file(config_path, content, force) on the file at config_path;
\* write_fails: create_dir_all or fs::write returns an error
write_config_file(file, content, force, write_fails) ==
    IF file.exists /\ ~force THEN [file |-> file, res |-> AlreadyExists]
    ELSE IF write_fails THEN [file |-> file, res |-> IoError]
    ELSE [file |-> FsWrite(file, content), res |-> Ok]

\* the init arm: the default configuration with the managed header goes to
\* install_config_file for the default path and to write_config_file for another
InitializeCommand ==
    /\ cli_pc = "Start"
    /\ \E force \in BOOLEAN, write_fails \in BOOLEAN :
        LET default_config == with_managed_header(DefaultConfig)
            r == IF ~custom_path
                 THEN install_config_file(config_file, default_config, force, write_fails)
                 ELSE write_config_file(config_file, default_config, force, write_fails)
        IN  /\ config_file' = r.file
            /\ last_op' = [kind |-> "init", force |-> force, res |-> r.res]
            /\ force_used' = force
            /\ run_result' = IF r.res.tag = "Ok" THEN Ok ELSE r.res
            /\ cli_pc' = IF r.res.tag = "Ok" THEN "Done" ELSE "Failed"
    /\ UNCHANGED <<config_source, hook_arg, config_result, phase_result, engine_calls>>
    /\ UNCHANGED <<hooks_dir, orig_hooks_dir, orig_config, clean_runs>>

\* main that ends the process with the exit code of a failed hook command
MainReturnsHookCode ==
    /\ cli_pc \in {"Done", "Installed", "Failed"}
    /\ exit_code = -1
    /\ exit_code' = IF ~IsErr(run_result) THEN 0
                    ELSE IF run_result.tag = "ExecutionFailed" THEN run_result.code ELSE 1
    /\ UNCHANGED custom_path

\* main: `if let Err(error) = run() { eprintln!(..); std::process::exit(1) }`
MainReturns ==
    /\ cli_pc \in {"Done", "Installed", "Failed"}
    /\ exit_code = -1
    /\ exit_code' = IF IsErr(run_result) THEN 1 ELSE 0
    /\ UNCHANGED custom_path

\* the phase run of `run`: the configurations of the model hold sequential
\* entries only, so the steps of the parallel group other than its join never apply
RunHooks ==
    /\ cli_pc = "Executing"
    /\ \/ ExecuteHook
       \/ SeqStart
       \/ SeqFinish
       \/ SeqComplete
       \/ ParJoin

CliStep ==
    \/ cli_command # "init" /\ ReadConfigFile /\ UNCHANGED <<execVars, instVars, cliInstallVars, procVars>>
    \/ cli_command = "run" /\ ParseHook /\ UNCHANGED <<execVars, instVars, cliInstallVars, procVars>>
    \/ ExecuteHookWithArgs /\ UNCHANGED <<instVars, cliInstallVars, procVars>>
    \/ RunHooks /\ UNCHANGED <<instVars, cliVars, cliInstallVars, procVars>>
    \/ RunReturns /\ UNCHANGED <<execVars, instVars, cliInstallVars, procVars>>
    \/ cli_command = "install" /\ InstallHooksCommand /\ UNCHANGED execVars
    \/ cli_command = "init" /\ InitializeCommand /\ UNCHANGED <<execVars, cliInstallVars, procVars>>
    \/ MainReturns /\ UNCHANGED <<execVars, instVars, cliVars, cliInstallVars>>

CliNext == CliStep /\ UNCHANGED <<cmdVars, markerVars, shellVars, platformVars>>

SpecConfig == CliInit /\ [][CliNext]_vars

----------------------------------------------------------------------------
(* Properties of validation and loading, checked under SpecConfig *)

\* from_toml has returned for a file that was read and parsed into a configuration
Parsed ==
    /\ cli_pc # "Start"
    /\ config_source.kind = "file" /\ config_source.ext = "toml" /\ config_source.readable
    /\ Deserialize(config_source.content).tag = "Ok"

\* the configuration the file was parsed into, before validation
ParsedConfig == Deserialize(config_source.content).config

IsBlank(hooks, p, i) == TrimIsEmpty(hooks[p][i].command)

HasBlank(hooks, p) == \E i \in 1..Len(hooks[p]) : IsBlank(hooks, p, i)

\* 1-based position of the first blank command of phase p
FirstBlank(hooks, p) ==
    CHOOSE i \in 1..Len(hooks[p]) :
        IsBlank(hooks, p, i) /\ \A j \in 1..(i - 1) : ~IsBlank(hooks, p, j)

Violates(hooks, p) == hooks[p] = <<>> \/ HasBlank(hooks, p)

\* the first phase, in the iteration order, that violates an invariant
FirstViolation(hooks, order) ==
    order[CHOOSE i \in 1..Len(order) :
            Violates(hooks, order[i]) /\ \A j \in 1..(i - 1) : ~Violates(hooks, order[j])]

\* C14 as stated: whenever the configuration holds a hook whose trimmed command is
\* empty, validation yields EmptyCommand naming the phase and 1-based index of
\* that hook.
C14_EveryEmptyCommandIsReported ==
    Parsed =>
        \A p \in DOMAIN ParsedConfig : \A i \in 1..Len(ParsedConfig[p]) :
            IsBlank(ParsedConfig, p, i) =>
                config_result = ValidationError(EmptyCommand(to_string(p), i))

\* C14 amended: a configuration that holds a hook whose trimmed command is empty
\* fails validation; an EmptyCommand error names a configured phase and the 1-based
\* index of the first entry of that phase whose trimmed command is empty; and it is
\* the error returned whenever the first violation in the iteration order of the
\* phases is such an entry.
C14_FirstEmptyCommandIsReported ==
    Parsed =>
        /\ (\E p \in DOMAIN ParsedConfig : HasBlank(ParsedConfig, p)) =>
              config_result.tag = "ValidationError"
        /\ (config_result.tag = "ValidationError" /\ config_result.error.tag = "EmptyCommand") =>
              \E p \in DOMAIN ParsedConfig :
                  /\ HasBlank(ParsedConfig, p)
                  /\ config_result.error = [tag |-> "EmptyCommand", hook_name |-> SerdeNames[p],
                                            entry_index |-> FirstBlank(ParsedConfig, p)]
        /\ \A order \in IterationOrders(DOMAIN ParsedConfig) :
              (\E p \in DOMAIN ParsedConfig : Violates(ParsedConfig, p)) =>
                  LET p == FirstViolation(ParsedConfig, order)
                  IN  ParsedConfig[p] # <<>> =>
                        validate(ParsedConfig, order) =
                            [tag |-> "EmptyCommand", hook_name |-> SerdeNames[p],
                             entry_index |-> FirstBlank(ParsedConfig, p)]
        /\ \A p \in DOMAIN ParsedConfig :
              (HasBlank(ParsedConfig, p)
                 /\ \A q \in DOMAIN ParsedConfig \ {p} : ~Violates(ParsedConfig, q)) =>
                  config_result = ValidationError(
                      [tag |-> "EmptyCommand", hook_name |-> SerdeNames[p],
                       entry_index |-> FirstBlank(ParsedConfig, p)])

\* the second of two pre-push entries is the only one with an empty command, next
\* to a valid pre-commit, and the load failed naming pre-push entry 2
C14_Witness ==
    /\ Parsed
    /\ DOMAIN ParsedConfig = {"PreCommit", "PrePush"}
    /\ ~Violates(ParsedConfig, "PreCommit")
    /\ Len(ParsedConfig["PrePush"]) = 2
    /\ ~IsBlank(ParsedConfig, "PrePush", 1) /\ IsBlank(ParsedConfig, "PrePush", 2)
    /\ config_result = ValidationError(EmptyCommand("pre-push", 2))

\* C15 as stated: whenever a phase of the configuration is mapped to an empty
\* list, validation yields EmptyHookEntries naming that phase.
C15_EveryEmptyPhaseIsReported ==
    Parsed =>
        \A p \in DOMAIN ParsedConfig :
            ParsedConfig[p] = <<>> =>
                config_result = ValidationError(EmptyHookEntries(to_string(p)))

\* C15 amended: a configuration in which a phase is mapped to an empty list fails
\* validation; an EmptyHookEntries error names a configured phase whose list is
\* empty; and it is the error returned whenever the first violation in the
\* iteration order of the phases is such a phase.
C15_FirstEmptyPhaseIsReported ==
    Parsed =>
        /\ (\E p \in DOMAIN ParsedConfig : ParsedConfig[p] = <<>>) =>
              config_result.tag = "ValidationError"
        /\ (config_result.tag = "ValidationError"
              /\ config_result.error.tag = "EmptyHookEntries") =>
              \E p \in DOMAIN ParsedConfig :
                  /\ ParsedConfig[p] = <<>>
                  /\ config_result.error =
                        [tag |-> "EmptyHookEntries", hook_name |-> SerdeNames[p]]
        /\ \A order \in IterationOrders(DOMAIN ParsedConfig) :
              (\E p \in DOMAIN ParsedConfig : Violates(ParsedConfig, p)) =>
                  LET p == FirstViolation(ParsedConfig, order)
                  IN  ParsedConfig[p] = <<>> =>
                        validate(ParsedConfig, order) =
                            [tag |-> "EmptyHookEntries", hook_name |-> SerdeNames[p]]
        /\ \A p \in DOMAIN ParsedConfig :
              (ParsedConfig[p] = <<>>
                 /\ \A q \in DOMAIN ParsedConfig \ {p} : ~Violates(ParsedConfig, q)) =>
                  config_result = ValidationError(
                      [tag |-> "EmptyHookEntries", hook_name |-> SerdeNames[p]])

\* pre-push is mapped to an empty list next to a valid pre-commit, and the load
\* failed naming pre-push
C15_Witness ==
    /\ Parsed
    /\ DOMAIN ParsedConfig = {"PreCommit", "PrePush"}
    /\ Len(ParsedConfig["PreCommit"]) = 2 /\ ~Violates(ParsedConfig, "PreCommit")
    /\ ParsedConfig["PrePush"] = <<>>
    /\ config_result = ValidationError(EmptyHookEntries("pre-push"))

\* every present phase maps to a non-empty list, and every command is non-empty
\* after trimming
WellFormed(hooks) ==
    \A p \in DOMAIN hooks :
        /\ Len(hooks[p]) >= 1
        /\ \A i \in 1..Len(hooks[p]) :
              \E k \in 1..Len(hooks[p][i].command) : hooks[p][i].command[k] \notin Whitespace

\* C16: a configuration that from_toml returned satisfies both invariants; load
\* succeeds on a parsed configuration exactly when it satisfies them; and validate
\* returns Ok, in every iteration order, exactly for the configurations that do.
C16_LoadedConfigIsWellFormed ==
    /\ config_result.tag = "Ok" => (Parsed /\ WellFormed(config_result.config)
                                      /\ config_result.config = ParsedConfig)
    /\ Parsed =>
        /\ (config_result.tag = "Ok") <=> WellFormed(ParsedConfig)
        /\ \A order \in IterationOrders(DOMAIN ParsedConfig) :
              (validate(ParsedConfig, order) = [tag |-> "Ok"]) <=> WellFormed(ParsedConfig)

\* a configuration with two entries for each of two phases was loaded
C16_Witness ==
    /\ config_result.tag = "Ok"
    /\ DOMAIN config_result.config = {"PreCommit", "PrePush"}
    /\ Len(config_result.config["PreCommit"]) = MaxEntries
    /\ Len(config_result.config["PrePush"]) = MaxEntries

----------------------------------------------------------------------------
(* Properties of the phase vocabulary and of `run`, checked under SpecConfig *)

NotAFile == [tag |-> "NotAFile"]

\* C17: a path that does not exist yields MissingFile, and a path that exists but
\* is a directory yields NotAFile.
C17_DirectoryIsNotAFile ==
    cli_pc # "Start" =>
        /\ config_source.kind = "missing" => config_result = MissingFile
        /\ config_source.kind = "directory" => config_result = NotAFile

\* the text of some phase of the vocabulary
InVocabulary(s) == \E p \in LifeCyclePhase : to_string(p) = s

\* the part of C18 that speaks of the two conversions alone
PhaseTextRoundTrips ==
    /\ \A p \in LifeCyclePhase : from_str(to_string(p)) = PhaseOk(p)
    /\ \A p, q \in LifeCyclePhase : to_string(p) = to_string(q) => p = q

\* C18: parsing the text of a phase gives that phase back; distinct phases have
\* distinct text; and parsing a string succeeds only with the phase whose text it
\* is, and otherwise fails with UnknownLifeCyclePhase carrying the string.
C18_PhaseTextBijection ==
    /\ PhaseTextRoundTrips
    /\ phase_result.tag # "NoResult" =>
          /\ phase_result = from_str(hook_arg)
          /\ IF InVocabulary(hook_arg)
             THEN /\ phase_result.tag = "Ok"
                  /\ phase_result.phase \in LifeCyclePhase
                  /\ to_string(phase_result.phase) = hook_arg
             ELSE phase_result = [tag |-> "UnknownLifeCyclePhase", name |-> hook_arg]

\* pre-auto-gc was parsed into its phase
C18_Witness ==
    /\ hook_arg = "pre-auto-gc"
    /\ phase_result = [tag |-> "Ok", phase |-> "PreAutoGc"]
    /\ to_string("PreAutoGc") = "pre-auto-gc"

\* C19: each server-side phase name parses, and a configuration keyed by a
\* server-side phase loads.
C19_ServerSidePhasesAreRecognized ==
    /\ (phase_result.tag # "NoResult" /\ hook_arg \in ServerSideHookNames) =>
          phase_result.tag = "Ok"
    /\ (cli_pc # "Start" /\ config_source.kind = "file" /\ config_source.ext = "toml"
          /\ config_source.readable /\ config_source.content.is_toml
          /\ DOMAIN config_source.content.table = {"pre-receive"}
          /\ config_source.content.table["pre-receive"] = <<GoodEntry>>) =>
          config_result.tag = "Ok"

\* C20: with a configuration that loaded, `run` with a name outside the vocabulary
\* fails with UnknownLifeCyclePhase naming that string, the engine is never asked,
\* and the error is not NoHooksConfigured.
C20_UnknownPhaseFailsBeforeEngine ==
    (cli_command = "run" /\ config_result.tag = "Ok" /\ cli_pc # "ConfigRead"
        /\ ~InVocabulary(hook_arg)) =>
        /\ cli_pc = "Failed"
        /\ run_result = [tag |-> "UnknownLifeCyclePhase", name |-> hook_arg]
        /\ run_result.tag # "NoHooksConfigured"
        /\ engine_calls = <<>>

\* `run not-a-hook` against a loaded configuration that has no such phase failed
\* with the unknown-phase error
C20_Witness ==
    /\ config_result.tag = "Ok"
    /\ DOMAIN config_result.config = {"PreCommit"}
    /\ hook_arg = "not-a-hook"
    /\ cli_pc = "Failed"
    /\ run_result = UnknownLifeCyclePhase("not-a-hook")
    /\ engine_calls = <<>>

----------------------------------------------------------------------------
(* Properties of `git-smee install`, checked under SpecConfig *)

\* the hook names of the phases the loaded configuration holds
ConfiguredNames == {to_string(p) : p \in DOMAIN config_result.config}

\* C23: after `install` succeeded, every configured phase has its hook file under
\* its kebab-case name, holding the rendered script and (on Unix) every execute
\* bit; install_hook ran once per configured phase; and the file of every hook
\* name without a configured phase is what it was before.
C23_OneExecutableFilePerPhase ==
    (cli_command = "install" /\ cli_pc = "Installed") =>
        /\ config_result.tag = "Ok"
        /\ Len(install_calls) = Cardinality(DOMAIN config_result.config)
        /\ Range(install_calls) = ConfiguredNames
        /\ \A p \in DOMAIN config_result.config : to_string(p) = SerdeNames[p]
        /\ \A n \in HookNames :
              IF n \in ConfiguredNames
              THEN /\ hooks_dir[n].exists
                   /\ hooks_dir[n].content = HookScript(n, platform)
                   /\ platform = "Unix" =>
                         BitOr(hooks_dir[n].mode, ExecuteBits) = hooks_dir[n].mode
              ELSE hooks_dir[n] = orig_hooks_dir[n]

\* install on Unix of a configuration with pre-commit only, in a repository
\* without a pre-commit hook and with a user's pre-push hook, succeeded
C23_Witness ==
    /\ cli_command = "install" /\ cli_pc = "Installed" /\ platform = "Unix"
    /\ DOMAIN config_result.config = {"PreCommit"}
    /\ orig_hooks_dir["pre-commit"] = Absent
    /\ orig_hooks_dir["pre-push"] = File(UserHook, ExecutableFileMode)
    /\ hooks_dir["pre-commit"].exists
    /\ hooks_dir["pre-push"] = orig_hooks_dir["pre-push"]
    /\ install_calls = <<"pre-commit">>

\* the configuration path names a readable .toml file that holds a TOML table
\* whose keys are phases, each with at least one entry and no blank command
Loadable(src) ==
    /\ src.kind = "file" /\ src.ext = "toml" /\ src.readable
    /\ src.content.is_toml
    /\ \A k \in DOMAIN src.content.table :
          /\ \E p \in LifeCyclePhase : SerdeNames[p] = k
          /\ src.content.table[k] # <<>>
          /\ \A i \in 1..Len(src.content.table[k]) :
                ~TrimIsEmpty(src.content.table[k][i].command)

\* C29: once the configuration has been read, one that does not load or validate
\* has ended the command with its error, and nothing else happened: `install`
\* called install_hook for no phase and left the hooks directory as it was, `run`
\* parsed no hook name, asked the engine for no phase and started no command.
C29_RejectedBeforeAnyEffect ==
    (cli_command \in {"run", "install"} /\ cli_pc # "Start" /\ ~Loadable(config_source)) =>
        /\ cli_pc = "Failed"
        /\ config_result.tag \notin {"Ok", "NoResult"}
        /\ run_result = config_result
        /\ hooks_dir = orig_hooks_dir
        /\ install_calls = <<>>
        /\ last_op = NoOp
        /\ phase_result = NoResult
        /\ engine_calls = <<>>
        /\ pc = "Idle"
        /\ calls = <<>>

\* install with a configuration whose pre-commit phase has no entries, in a
\* repository holding an earlier managed pre-commit hook, failed validation
C29_Witness ==
    /\ cli_command = "install" /\ cli_pc = "Failed"
    /\ config_source = TomlFile(Toml([k \in {"pre-commit"} |-> <<>>]))
    /\ config_result = ValidationError(EmptyHookEntries("pre-commit"))
    /\ orig_hooks_dir["pre-commit"] = File(StaleManagedHook, DefaultFileMode)
    /\ hooks_dir = orig_hooks_dir
    /\ install_calls = <<>>

\* run pre-commit with a configuration whose only pre-commit command is blank
\* failed validation without a command started
C29_WitnessRun ==
    /\ cli_command = "run" /\ cli_pc = "Failed" /\ hook_arg = "pre-commit"
    /\ config_result.tag = "ValidationError"
    /\ config_result.error.tag = "EmptyCommand"
    /\ calls = <<>>

----------------------------------------------------------------------------
(* installer.rs: with_managed_header_with_prefix and is_managed_file on the
   contents a file can have *)

Nl == <<"\n">>

Shebang == <<"#", "!", "/", "b", "i", "n", "/", "s", "h">>

EchoHi == <<"e", "c", "h", "o", " ", "h", "i">>

Extra == <<"-", "e", "x", "t", "r", "a">>

\* the comment prefixes with_managed_header_with_prefix accepts
CommentPrefixes == {<<"#">>, <<"R", "E", "M">>}

MarkerLines == {marker_hash, marker_rem}

\* k - 1 lines holding `fill` (empty or one character), then `rest`
LinesBefore(fill, k, rest) ==
    LET w == Len(fill) + 1
    IN  [i \in 1..(w * (k - 1)) |-> IF i % w = 0 THEN "\n" ELSE fill[1]] \o rest

\* one line of off - 1 characters and its newline, then `rest`, which so begins
\* right after byte `off` of the file
AtOffset(off, rest) == Repeat("x", off - 1) \o Nl \o rest

\* contents without a marker line, with and without a shebang
PlainContents ==
    {<<>>, Nl, EchoHi, EchoHi \o Nl, <<"#", "!">>, <<"#">>, Shebang, Shebang \o Nl,
     Shebang \o Nl \o EchoHi \o Nl, Shebang \o <<"\r", "\n">> \o EchoHi,
     <<" ">> \o Shebang \o Nl, Nl \o Shebang \o Nl, MANAGED_FILE_MARKER \o Nl,
     <<"#">> \o MANAGED_FILE_MARKER \o Nl}

\* a marker as a line of its own with each line ending, inside a longer line,
\* indented, and after a shebang
MarkerContents ==
    UNION {{m, m \o Nl, m \o <<"\r">>, m \o <<"\r", "\n">>, m \o <<"\r", "\r", "\n">>,
            m \o Extra \o Nl, m \o <<" ">> \o Nl, <<" ">> \o m \o Nl, <<"\t">> \o m \o Nl,
            EchoHi \o <<" ">> \o m \o Nl, Shebang \o Nl \o m \o Nl \o EchoHi \o Nl,
            Shebang \o <<" ">> \o m \o Nl} : m \in MarkerLines}

\* a marker on each of the lines 2 .. HeaderMaxLines + 1, after empty lines or
\* after lines of one character
MarkerOnLaterLine ==
    {LinesBefore(fill, k, m \o Nl) :
        fill \in {<<>>, <<"x">>}, k \in 2..(HeaderMaxLines + 1), m \in MarkerLines}

\* a marker that ends exactly at byte HeaderBufLen of the file, one that ends one
\* byte later, and one that begins after byte HeaderBufLen; alone on its line, or
\* followed by more text on the same line
MarkerAtWindowEnd ==
    {AtOffset(HeaderBufLen - Len(m) + d, m \o tail) :
        m \in MarkerLines, d \in {-1, 0, 1},
        tail \in {<<>>, Nl, <<"\r", "\n">>, Extra \o Nl}}
        \cup {AtOffset(HeaderBufLen, m \o Nl) : m \in MarkerLines}

\* scripts whose shebang line is so long that a marker line put after it ends at
\* byte HeaderBufLen of the file, or one or two bytes later
LongShebangContents ==
    {<<"#", "!">> \o Repeat("x", HeaderBufLen - Len(marker_hash) - 3 + d) \o tail :
        d \in {0, 1, 2}, tail \in {<<>>, Nl \o EchoHi \o Nl}}

FileContents ==
    PlainContents \cup MarkerContents \cup MarkerOnLaterLine \cup MarkerAtWindowEnd
        \cup LongShebangContents

MarkerInit ==
    /\ file_bytes \in FileContents
    /\ headed = NoResult
    /\ managed = NoResult
    /\ cmd = <<>>
    /\ cmd_result = NoResult
    /\ platform_run = NoResult
    /\ custom_path = FALSE
    /\ exit_code = -1
    /\ chmod_call = NoResult
    /\ escape_call = NoResult
    /\ config_source = <<>>
    /\ hook_arg = ""
    /\ cli_pc = "Idle"
    /\ config_result = NoResult
    /\ phase_result = NoResult
    /\ engine_calls = <<>>
    /\ run_result = NoResult
    /\ cli_command = "none"
    /\ install_calls = <<>>
    /\ platform = "Unix"
    /\ smee_config = <<>>
    /\ phase = "pre-commit"
    /\ pc = "Idle"
    /\ seq_idx = 1
    /\ seq_running = FALSE
    /\ par = <<>>
    /\ results = <<>>
    /\ calls = <<>>
    /\ outcomes = <<>>
    /\ result = NoResult
    /\ hooks_dir = <<>>
    /\ config_file = <<>>
    /\ orig_hooks_dir = <<>>
    /\ orig_config = <<>>
    /\ force_used = FALSE
    /\ clean_runs = <<>>
    /\ last_op = <<>>

\* a call with_managed_header_with_prefix(content, comment_prefix) on the content
WithManagedHeader ==
    /\ headed = NoResult
    /\ \E comment_prefix \in CommentPrefixes :
        headed' = [tag |-> "Ok", prefix |-> comment_prefix,
                   content |-> with_managed_header_with_prefix(file_bytes, comment_prefix)]
    /\ UNCHANGED <<file_bytes, managed>>

\* a call is_managed_file(path) on a file that holds the content
IsManagedFile ==
    /\ managed = NoResult
    /\ managed' = [tag |-> "Ok", value |-> is_managed_file(file_bytes)]
    /\ UNCHANGED <<file_bytes, headed>>

\* a call is_managed_file(path) on a file that holds what with_managed_header
\* returned
IsManagedHeadedFile ==
    /\ headed.tag = "Ok"
    /\ headed' = [tag |-> "Checked", prefix |-> headed.prefix, content |-> headed.content,
                  managed |-> is_managed_file(headed.content)]
    /\ UNCHANGED <<file_bytes, managed>>

MarkerNext ==
    \/ WithManagedHeader /\ UNCHANGED <<execVars, instVars, cmdVars, cliVars, cliInstallVars, shellVars, procVars, platformVars>>
    \/ IsManagedHeadedFile /\ UNCHANGED <<execVars, instVars, cmdVars, cliVars, cliInstallVars, shellVars, procVars, platformVars>>
    \/ IsManagedFile /\ UNCHANGED <<execVars, instVars, cmdVars, cliVars, cliInstallVars, shellVars, procVars, platformVars>>

SpecMarker == MarkerInit /\ [][MarkerNext]_vars

----------------------------------------------------------------------------
(* Properties of the managed marker, checked under SpecMarker *)

\* position of the k-th newline of content
KthNewline(content, k) ==
    LET nls == Newlines(content)
    IN  CHOOSE i \in nls : Cardinality({j \in nls : j <= i}) = k

\* line j of the file: where it begins, and its text without the newline
FileLine(content, j) ==
    LET n == Cardinality(Newlines(content))
        from == IF j = 1 THEN 1 ELSE KthNewline(content, j - 1) + 1
        to == IF j > n THEN Len(content) ELSE KthNewline(content, j) - 1
    IN  [from |-> from, text |-> SubSeq(content, from, to)]

NumLines(content) == Cardinality(Newlines(content)) + 1

\* some line of the file among its first HeaderMaxLines lines is, without a
\* trailing carriage return, a marker comment that lies within the first
\* HeaderBufLen bytes
MarkerLineInWindow(content) ==
    \E j \in 1..HeaderMaxLines :
        /\ j <= NumLines(content)
        /\ LET l == FileLine(content, j)
               t == StripCr(l.text)
           IN  /\ t \in MarkerLines
               /\ l.from + Len(t) - 1 <= HeaderBufLen

\* C25: is_managed_file answers true exactly when one of the first 8 lines of the
\* file, within its first 1024 bytes and without a trailing carriage return, is
\* equal to the hash-prefixed or the REM-prefixed marker comment.
C25_ManagedIffExactMarkerLine ==
    managed.tag = "Ok" => (managed.value <=> MarkerLineInWindow(file_bytes))

\* C26: for content that begins with a shebang, the first line of the output is
\* the first line of the content and its second line is the marker line; for
\* other content the output is the marker line, an empty line and the content.
\* Either way the output is the content with one piece of text inserted.
C26_HeaderKeepsShebangAndContent ==
    headed.tag = "Ok" =>
        LET out == headed.content
            m == headed.prefix \o <<" ">> \o MANAGED_FILE_MARKER
        IN  IF StartsWith(file_bytes, <<"#", "!">>)
            THEN /\ FileLine(out, 1).text = FileLine(file_bytes, 1).text
                 /\ NumLines(out) >= 2
                 /\ FileLine(out, 2).text = m
                 /\ \E k \in 0..Len(file_bytes), ins \in {m \o Nl \o Nl, Nl \o m \o Nl \o Nl} :
                       out = SubSeq(file_bytes, 1, k) \o ins
                                \o SubSeq(file_bytes, k + 1, Len(file_bytes))
            ELSE out = m \o Nl \o Nl \o file_bytes

\* a shebang line followed by a command got the hash marker between the two
C26_Witness ==
    /\ file_bytes = Shebang \o Nl \o EchoHi \o Nl
    /\ headed.tag = "Ok"
    /\ headed.content = Shebang \o Nl \o marker_hash \o Nl \o Nl \o EchoHi \o Nl

\* a shebang without a newline got a newline and the REM marker after it
C26_WitnessNoNewline ==
    /\ file_bytes = Shebang
    /\ headed.tag = "Ok"
    /\ headed.content = Shebang \o Nl \o marker_rem \o Nl \o Nl

----------------------------------------------------------------------------
(* Properties of the process and of `git-smee init`, checked under SpecConfig *)

\* the command did what it was asked to do
CommandSucceeded ==
    CASE cli_command = "run" ->
            /\ config_result.tag = "Ok" /\ phase_result.tag = "Ok"
            /\ pc = "Completed"
            /\ \A h \in 1..Len(Hooks) : outcomes[h] = [kind |-> "Exit", code |-> 0]
      [] cli_command = "install" -> last_op.kind = "install_hooks" /\ last_op.res = Ok
      [] cli_command = "init" -> last_op.kind = "init" /\ last_op.res.tag = "Ok"

\* C31: the process exits with code 0 when the command succeeded and with code 1
\* when run, install or init failed; a failed hook command gives exit code 1
\* whatever its own exit code was.
C31_ExitCodeIsZeroOrOne ==
    exit_code # -1 =>
        /\ exit_code \in {0, 1}
        /\ exit_code = 0 <=> CommandSucceeded
        /\ IsErr(run_result) <=> exit_code = 1
        /\ (cli_command = "run" /\ pc = "Failed") =>
              \A h \in 1..Len(outcomes) :
                  (outcomes[h].kind = "Exit" /\ outcomes[h].code # 0) => exit_code = 1

\* `run pre-commit` whose command exited with code 2 ended the process with code 1
C31_Witness ==
    /\ cli_command = "run" /\ hook_arg = "pre-commit"
    /\ pc = "Failed"
    /\ run_result = ExecutionFailed(2)
    /\ exit_code = 1

\* a successful install ended the process with code 0
C31_WitnessInstall ==
    /\ cli_command = "install" /\ cli_pc = "Installed" /\ exit_code = 0

\* a refused init ended the process with code 1
C31_WitnessInit ==
    /\ cli_command = "init" /\ cli_pc = "Failed" /\ exit_code = 1

\* C40: init without --force on a configuration path that names a file fails and
\* leaves the file as it was, for the default path and for a custom one, whether
\* the file is managed or not; with --force the file is not refused, and unless
\* the write itself fails it then holds the default configuration with the
\* managed header.
C40_InitOverwritesOnlyWithForce ==
    (cli_command = "init" /\ cli_pc # "Start" /\ orig_config.exists) =>
        IF ~last_op.force
        THEN /\ cli_pc = "Failed"
             /\ IsErr(run_result)
             /\ config_file = orig_config
             /\ run_result.tag \in
                   (IF custom_path THEN {"AlreadyExists"}
                    ELSE {"RefusingToOverwriteManagedConfigFile",
                          "RefusingToOverwriteUnmanagedConfigFile"})
        ELSE /\ run_result.tag \in {"Ok", "IoError", "FailedToWriteConfigFile"}
             /\ run_result = Ok =>
                   /\ cli_pc = "Done"
                   /\ config_file.content = with_managed_header(DefaultConfig)
                   /\ config_file.content # orig_config.content
             /\ run_result # Ok => config_file = orig_config

\* init --config <custom path> without --force on a user's file was refused
C40_Witness ==
    /\ cli_command = "init" /\ custom_path /\ ~last_op.force
    /\ orig_config = File(UserConfig, DefaultFileMode)
    /\ cli_pc = "Failed"
    /\ run_result = AlreadyExists
    /\ config_file = orig_config

\* init --force with the default path replaced a managed configuration file
C40_WitnessForce ==
    /\ cli_command = "init" /\ ~custom_path /\ last_op.force
    /\ orig_config = File(with_managed_header(UserConfig), DefaultFileMode)
    /\ cli_pc = "Done"
    /\ config_file.content = with_managed_header(DefaultConfig)

----------------------------------------------------------------------------
(* platform.rs: Platform::make_executable as a function of the file at the path *)

\* the largest file mode of the model: all permission bits (0o777)
MaxFileMode == 511

\* the files make_executable is called on: nothing at the path, or a file of any mode
ChmodTargets == {Absent} \cup {File(UserHook, m) : m \in 0 .. MaxFileMode}

IdleInit ==
    /\ cmd = <<>>
    /\ cmd_result = NoResult
    /\ config_source = <<>>
    /\ hook_arg = ""
    /\ cli_pc = "Idle"
    /\ config_result = NoResult
    /\ phase_result = NoResult
    /\ engine_calls = <<>>
    /\ run_result = NoResult
    /\ cli_command = "none"
    /\ install_calls = <<>>
    /\ file_bytes = <<>>
    /\ headed = NoResult
    /\ managed = NoResult
    /\ platform_run = NoResult
    /\ custom_path = FALSE
    /\ exit_code = -1
    /\ platform = "Unix"
    /\ smee_config = <<>>
    /\ phase = "pre-commit"
    /\ pc = "Idle"
    /\ seq_idx = 1
    /\ seq_running = FALSE
    /\ par = <<>>
    /\ results = <<>>
    /\ calls = <<>>
    /\ outcomes = <<>>
    /\ result = NoResult
    /\ hooks_dir = <<>>
    /\ config_file = <<>>
    /\ orig_hooks_dir = <<>>
    /\ orig_config = <<>>
    /\ force_used = FALSE
    /\ clean_runs = <<>>
    /\ last_op = <<>>

ChmodInit ==
    /\ IdleInit
    /\ escape_call = NoResult
    /\ \E file \in ChmodTargets, pf \in Platforms, cfg_unix \in BOOLEAN :
           chmod_call = [tag |-> "Called", pf |-> pf, cfg_unix |-> cfg_unix, before |-> file]

\* platform.make_executable(&hook_path)
MakeExecutable ==
    /\ chmod_call.tag = "Called"
    /\ \E set_fails \in BOOLEAN :
        LET r == Platform_make_executable(chmod_call.before, chmod_call.pf,
                                          chmod_call.cfg_unix, set_fails)
        IN  chmod_call' = [tag |-> "Returned", pf |-> chmod_call.pf,
                           cfg_unix |-> chmod_call.cfg_unix, before |-> chmod_call.before,
                           after |-> r.file, res |-> r.res]
    /\ UNCHANGED escape_call

ChmodNext ==
    MakeExecutable /\ UNCHANGED <<execVars, instVars, cmdVars, cliVars, cliInstallVars, markerVars, shellVars, procVars>>

SpecChmod == ChmodInit /\ [][ChmodNext]_vars

\* bit k of the file mode m is set
HasBit(m, k) == (m \div (2 ^ k)) % 2 = 1

\* positions of the bits of 0o111: execute for others, group and owner
ExecuteBitPositions == {0, 3, 6}

\* positions of the bits a file mode of the model can hold
ModeBitPositions == 0 .. 11

\* C32: on Unix a successful make_executable leaves the file with its content and
\* with the mode `old | 0o111`: the three execute bits are set, every bit that was
\* set is still set and no other bit is added; on Windows it returns Ok and
\* changes nothing, also for a path that names no file
C32_MakeExecutableAddsExecuteBits ==
    chmod_call.tag = "Returned" =>
        /\ (chmod_call.pf = "Unix" /\ chmod_call.cfg_unix /\ chmod_call.res = Ok) =>
              /\ chmod_call.before.exists /\ chmod_call.after.exists
              /\ chmod_call.after.content = chmod_call.before.content
              /\ \A k \in ExecuteBitPositions : HasBit(chmod_call.after.mode, k)
              /\ \A k \in ModeBitPositions :
                    HasBit(chmod_call.before.mode, k) => HasBit(chmod_call.after.mode, k)
              /\ \A k \in ModeBitPositions \ ExecuteBitPositions :
                    HasBit(chmod_call.after.mode, k) => HasBit(chmod_call.before.mode, k)
        /\ chmod_call.pf = "Windows" =>
              /\ chmod_call.res = Ok
              /\ chmod_call.after = chmod_call.before

\* the file of the unit test: mode 0o640 becomes 0o751
C32_Witness ==
    /\ chmod_call.tag = "Returned"
    /\ chmod_call.pf = "Unix" /\ chmod_call.cfg_unix /\ chmod_call.res = Ok
    /\ chmod_call.before.exists /\ chmod_call.before.mode = 416
    /\ chmod_call.after.mode = 489

\* Windows: Ok for a path that names no file
C32_WitnessWindows ==
    /\ chmod_call.tag = "Returned"
    /\ chmod_call.pf = "Windows"
    /\ chmod_call.before = Absent
    /\ chmod_call.res = Ok

----------------------------------------------------------------------------
(* installer.rs: a path escaped into a line of the hook script, and the value *)
(* the platform shell gives the variable when it reads that line            *)

\* bound on the length of the paths of the model
MaxPathLen == 3

\* the characters of the paths of the model: a letter, the characters the two
\* escape functions replace, a space, a backslash and a unit that is not Unicode
PathChars == {"a", "'", "\"", "%", " ", "\\", InvalidUnit}

Paths == UNION {[1 .. n -> PathChars] : n \in 1 .. MaxPathLen}

\* the escaped path of install_hooks_with_options, by platform
escape_path(path, pf) ==
    IF pf = "Windows" THEN cmd_escape(path) ELSE shell_single_quote(path)

\* the line of the rendered script that assigns the executable path:
\* `GIT_SMEE_BIN='...'` on Unix, `set "GIT_SMEE_BIN=..."` on Windows
AssignmentLine(escaped, pf) ==
    IF pf = "Windows"
    THEN <<"s", "e", "t", " ", "\"", "G", "I", "T", "_", "S", "M", "E", "E", "_", "B", "I", "N", "=">>
            \o escaped \o <<"\"", "\r", "\n">>
    ELSE <<"G", "I", "T", "_", "S", "M", "E", "E", "_", "B", "I", "N", "=">> \o escaped \o <<"\n">>

\* sh: the value of the word that begins at s[i]; quoting is "plain" outside
\* quotes, "single" inside '...' and "double" inside "..."
RECURSIVE ShWord(_, _, _)
ShWord(s, i, quoting) ==
    IF i > Len(s) THEN <<>>
    ELSE IF quoting = "single"
         THEN IF s[i] = "'" THEN ShWord(s, i + 1, "plain")
              ELSE <<s[i]>> \o ShWord(s, i + 1, "single")
    ELSE IF quoting = "double"
         THEN IF s[i] = "\"" THEN ShWord(s, i + 1, "plain")
              ELSE IF s[i] = "\\" /\ i < Len(s) /\ s[i + 1] \in {"\"", "\\"}
                   THEN <<s[i + 1]>> \o ShWord(s, i + 2, "double")
              ELSE <<s[i]>> \o ShWord(s, i + 1, "double")
    ELSE IF s[i] = "'" THEN ShWord(s, i + 1, "single")
    ELSE IF s[i] = "\"" THEN ShWord(s, i + 1, "double")
    ELSE IF s[i] = "\\" /\ i < Len(s) THEN <<s[i + 1]>> \o ShWord(s, i + 2, "plain")
    ELSE IF s[i] \in {" ", "\n"} THEN <<>>
    ELSE <<s[i]>> \o ShWord(s, i + 1, "plain")

\* index of the first `=` of the line
FirstEquals(s) == CHOOSE i \in 1 .. Len(s) : s[i] = "=" /\ \A j \in 1 .. i - 1 : s[j] # "="

\* sh reading `NAME=word`: the value of NAME
ShAssignedValue(line) == ShWord(line, FirstEquals(line) + 1, "plain")

\* cmd.exe reading a line of a batch file, percent phase: `%%` is a percent sign,
\* `%name%` is the value of a variable (none is defined: nothing), and a percent
\* sign without a partner is dropped
RECURSIVE CmdPercentPhase(_, _)
CmdPercentPhase(s, i) ==
    IF i > Len(s) THEN <<>>
    ELSE IF s[i] # "%" THEN <<s[i]>> \o CmdPercentPhase(s, i + 1)
    ELSE IF i < Len(s) /\ s[i + 1] = "%" THEN <<"%">> \o CmdPercentPhase(s, i + 2)
    ELSE LET closing == {j \in i + 1 .. Len(s) : s[j] = "%"}
         IN  IF closing = {} THEN CmdPercentPhase(s, i + 1)
             ELSE CmdPercentPhase(s, (CHOOSE j \in closing : \A k \in closing : j <= k) + 1)

\* cmd.exe running `set "NAME=value"`: the value is the text after the first `=`
\* up to the last double quote of the line, taken as it stands
CmdSetValue(line) ==
    LET expanded == CmdPercentPhase(line, 1)
        quotes == {i \in 1 .. Len(expanded) : expanded[i] = "\""}
        last_quote == CHOOSE i \in quotes : \A j \in quotes : j <= i
    IN  SubSeq(expanded, FirstEquals(expanded) + 1, last_quote - 1)

\* the value the platform shell assigns when it reads the line
ShellAssignedValue(line, pf) ==
    IF pf = "Windows" THEN CmdSetValue(line) ELSE ShAssignedValue(line)

EscapeInit ==
    /\ IdleInit
    /\ chmod_call = NoResult
    /\ \E path \in Paths, pf \in Platforms :
           escape_call = [tag |-> "Called", pf |-> pf, path |-> path]

\* install_hooks_with_options: the path is escaped and replaces the placeholder
RenderAssignment ==
    /\ escape_call.tag = "Called"
    /\ escape_call' = [tag |-> "Rendered", pf |-> escape_call.pf, path |-> escape_call.path,
                       line |-> AssignmentLine(escape_path(escape_call.path, escape_call.pf),
                                               escape_call.pf)]
    /\ UNCHANGED chmod_call

\* git runs the hook: the shell reads the line
ShellReadsAssignment ==
    /\ escape_call.tag = "Rendered"
    /\ escape_call' = [tag |-> "Read", pf |-> escape_call.pf, path |-> escape_call.path,
                       line |-> escape_call.line,
                       value |-> ShellAssignedValue(escape_call.line, escape_call.pf)]
    /\ UNCHANGED chmod_call

EscapeNext ==
    \/ RenderAssignment /\ UNCHANGED <<execVars, instVars, cmdVars, cliVars, cliInstallVars, markerVars, shellVars, procVars>>
    \/ ShellReadsAssignment /\ UNCHANGED <<execVars, instVars, cmdVars, cliVars, cliInstallVars, markerVars, shellVars, procVars>>

SpecEscape == EscapeInit /\ [][EscapeNext]_vars

\* C33: for every path, the value the shell assigns from the generated line is
\* the path that was escaped
C33_EscapeRoundTrips ==
    escape_call.tag = "Read" => escape_call.value = escape_call.path

\* the round trip loses the path exactly when the path holds a unit that is not
\* Unicode, or, on Windows, a double quote
RoundTripLostExactlyWhen ==
    escape_call.tag = "Read" =>
        (escape_call.value # escape_call.path
            <=> \E i \in 1 .. Len(escape_call.path) :
                    \/ escape_call.path[i] = InvalidUnit
                    \/ escape_call.pf = "Windows" /\ escape_call.path[i] = "\"")

\* a Unix path with a single quote is recovered
QuotedPathRecovered ==
    /\ escape_call.tag = "Read"
    /\ escape_call.pf = "Unix"
    /\ escape_call.path = <<"a", "'", "a">>
    /\ escape_call.value = escape_call.path

----------------------------------------------------------------------------
(* executor.rs: redact_command on executable names around the cut at 80 *)

\* executable names of n characters: of one-byte characters, of two-byte
\* characters, and of one one-byte character followed by two-byte characters
LongNames(n) == {Repeat("y", n), Repeat(TwoByteChar, n), <<"y">> \o Repeat(TwoByteChar, n - 1)}

\* command strings with an executable name at and around the cut, in bytes and in
\* characters, alone, before a flag and after an inline assignment
LongCommands ==
    LET names == UNION {LongNames(n) : n \in {RedactTruncateAbove \div 2,
                                                RedactTruncateAbove \div 2 + 1,
                                                RedactTruncateAbove,
                                                RedactTruncateAbove + 1}}
    IN  names \cup {name \o <<" ">> \o TokFlag : name \in names}
              \cup {TokInlineEnv \o <<" ">> \o name : name \in names}

RedactInit == CmdInitWith(Commands \cup LongCommands)

RedactNext ==
    ExecuteCommand /\ UNCHANGED <<execVars, instVars, cliVars, cliInstallVars, markerVars, shellVars, procVars, platformVars>>

SpecRedactLong == RedactInit /\ [][RedactNext]_vars

\* s ends with the characters of t
EndsWith(s, t) == Len(s) >= Len(t) /\ SubSeq(s, Len(s) - Len(t) + 1, Len(s)) = t

\* the token is an inline environment assignment: it contains `=`, does not
\* start with `-` and holds no path separator
InlineAssignment(token) ==
    /\ \E i \in 1 .. Len(token) : token[i] = "="
    /\ token[1] # "-"
    /\ \A i \in 1 .. Len(token) : token[i] \notin {"/", "\\"}

\* the redacted command is the executable name, or its cut, followed by the
\* marker exactly when `more`
ShowsExecutable(shown, executable, more) ==
    LET name == IF more THEN SubSeq(shown, 1, Len(shown) - Len(ArgsRedacted)) ELSE shown
    IN  /\ more => EndsWith(shown, ArgsRedacted)
        /\ Len(executable) <= 80 => name = executable
        /\ Len(executable) > 80 =>
              /\ Len(name) <= 80
              /\ EndsWith(name, Ellipsis)
              /\ SubSeq(name, 1, Len(name) - Len(Ellipsis))
                    = SubSeq(executable, 1, Len(name) - Len(Ellipsis))

\* C37: when the command could not be spawned, the command the error shows is the
\* first whitespace-separated token that is not an inline environment assignment,
\* whole when it has at most 80 characters and otherwise cut to at most 80
\* characters that end in an ellipsis, followed by ` <args redacted>` exactly when
\* a token follows it
C37_RedactShowsExecutable ==
    cmd_result.tag \in {"CommandSpawnFailed", "Panicked"} =>
        LET tokens == SplitWhitespace(cmd)
            cand == {i \in 1 .. Len(tokens) : ~InlineAssignment(tokens[i])}
        IN  cand # {} =>
                LET k == CHOOSE i \in cand : \A j \in cand : i <= j
                IN  /\ cmd_result.tag = "CommandSpawnFailed"
                    /\ ShowsExecutable(cmd_result.command, tokens[k], k < Len(tokens))

\* the same for commands whose executable name holds one-byte characters only
RedactShowsExecutableOfOneByteChars ==
    (cmd_result.tag \in {"CommandSpawnFailed", "Panicked"} /\ ~Contains(cmd, TwoByteChar)) =>
        LET tokens == SplitWhitespace(cmd)
            cand == {i \in 1 .. Len(tokens) : ~InlineAssignment(tokens[i])}
        IN  cand # {} =>
                LET k == CHOOSE i \in cand : \A j \in cand : i <= j
                IN  /\ cmd_result.tag = "CommandSpawnFailed"
                    /\ ShowsExecutable(cmd_result.command, tokens[k], k < Len(tokens))

\* a name of 81 one-byte characters before a flag is cut to 77 characters and the
\* ellipsis, and the marker follows
LongNameIsCut ==
    /\ cmd = Repeat("y", RedactTruncateAbove + 1) \o <<" ">> \o TokFlag
    /\ cmd_result.tag = "CommandSpawnFailed"
    /\ cmd_result.command = Repeat("y", RedactTruncateTo) \o Ellipsis \o ArgsRedacted

\* a name of 41 two-byte characters: truncate(77) panics
TwoByteNamePanics ==
    /\ cmd = Repeat(TwoByteChar, RedactTruncateAbove \div 2 + 1)
    /\ cmd_result = Panicked

\* a name of 41 characters and 81 bytes is cut although it has fewer than 80 characters
ShortNameIsCut ==
    /\ cmd = <<"y">> \o Repeat(TwoByteChar, RedactTruncateAbove \div 2)
    /\ cmd_result.tag = "CommandSpawnFailed"
    /\ cmd_result.command = <<"y">> \o Repeat(TwoByteChar, (RedactTruncateTo - 1) \div 2) \o Ellipsis

----------------------------------------------------------------------------
(* installer.rs: is_managed_file on what with_managed_header returned,      *)
(* checked under SpecMarker                                                 *)

\* C39: for every content and either comment prefix, a file that holds what
\* with_managed_header_with_prefix returned is recognised by is_managed_file
C39_HeadedFileIsManaged ==
    headed.tag = "Checked" => headed.managed

\* the number of bytes up to and including the newline that ends the shebang
\* line of the headed content (the newline is added when the content has none)
ShebangLineLen(content) ==
    LET nl == NextNewline(Newlines(content), 1)
    IN  IF nl = 0 THEN Len(content) + 1 ELSE nl

\* the headed file is recognised unless the content begins with a shebang line so
\* long that the marker line after it does not end within the first HeaderBufLen
\* bytes
HeadedFileIsManagedUnlessShebangTooLong ==
    headed.tag = "Checked" =>
        (headed.managed <=>
            ~ /\ StartsWith(file_bytes, <<"#", "!">>)
              /\ ShebangLineLen(file_bytes) + Len(headed.prefix) + 1 + Len(MANAGED_FILE_MARKER)
                    > HeaderBufLen)

\* a script with a shebang line of common length is recognised after the header
\* was added
ShortShebangRecognised ==
    /\ headed.tag = "Checked"
    /\ file_bytes = Shebang \o Nl \o EchoHi \o Nl
    /\ headed.managed

====
